---- MODULE Spec2Model ----
(***************************************************************************)
(* Rate-limited social sync of the beverage-brands dashboard backend:      *)
(*   services/tiktok_api.py   RateLimiter, TikTokAPI, get_tiktok_user      *)
(*   services/social_sync.py  SocialSyncService, sync_all_brands           *)
(*   database.py              create_metric, create_sync_log,              *)
(*                            update_sync_log                              *)
(* Time is a discrete clock `now`; the two windows of the limiter are      *)
(* HourLen and MonthLen ticks long.                                        *)
(***************************************************************************)
EXTENDS Integers, Sequences, FiniteSets, TLC

\* ------------------------------------------------------------------ bounds
HourLen == 2
MonthLen == 3
MaxTime == 4
MaxSyncTime == 1
MaxLimit == 2
MaxFollowers == 2
NBrands == 2
MaxRuns == 1
MaxMetrics == 2
MaxEntries == 2
MaxMinutes == 2
MaxLen == 4

\* ------------------------------------------------------- program constants
\* One retry more than _make_request allows.
RetriesPlusOne == 2 + 1

\* _make_request(..., retries: int = 2)
Retries == 2

\* Python's None for an Optional[str] and for an Optional[int].
NoError == "None"
NoInt == -1

VARIABLES
    now,                  \* datetime.utcnow(), in ticks
    hourly_limit,         \* RateLimiter.hourly_limit
    monthly_limit,        \* RateLimiter.monthly_limit
    requests_this_hour,   \* RateLimiter.requests_this_hour
    requests_this_month,  \* RateLimiter.requests_this_month
    cpc,                  \* where the running get_tiktok_user call stands
    caller,               \* who called get_tiktok_user: "none", "test", "sync"
    attempt,              \* the loop variable of _make_request
    ret,                  \* the dictionary get_tiktok_user returns
    checks,               \* can_make_request calls made by the running fetch
    outcomes,             \* what each requests.get of the running fetch ended in
    recorded,             \* record_request calls made by the running fetch
    backoffs,             \* the time.sleep waits of the running fetch
    payload,              \* followerCount of the 2xx payload the fetch parsed
    brand_handles,        \* the brands table: id -> which handles the brand has
    sync_logs,            \* the sync_logs table
    metrics,              \* the social_metrics table
    credit_usage,         \* the credit_usage table
    rpc,                  \* where the running sync_all_brands call stands
    brands,               \* sync_all_brands: the resolved brands (ids, in order)
    idx,                  \* sync_all_brands: position of the loop in brands
    result,               \* sync_brand: the SyncResult being filled
    results,              \* sync_all_brands: results
    tiktok_success_count, \* sync_all_brands
    instagram_success_count,
    error_count,
    sync_ret,             \* what the module-level sync_all_brands returned
    fetched,              \* the get_*_user calls of the run: <<brand, platform>>
    persist_failed,       \* the create_metric calls of the run that raised
    brand_ids,            \* sync_all_brands: the brand_ids argument
    query_brand_ids,      \* POST /sync: the brand_ids query parameter
    entry,                \* what started the sync: "direct", "api", "single"
    metrics_before,       \* rows of social_metrics when the sync started
    single_ret,           \* what sync_single_brand returned
    http_status,          \* POST /sync: the status of the response, 0 before it
    request,              \* POST /sync: the query parameters of the request
    delays,               \* sync_brand: the time.sleep(self.delay) calls made
    raw,                  \* _parse_number: the value of the payload field
    parsed,               \* _parse_number: what it returned, or that it raised
    monthly_budget,       \* CreditsTracker.monthly_budget
    budget_ret,           \* what get_budget_status returned
    charge,               \* the last call of log_usage: its arguments, its outcome
    limits_ret,           \* what get_rate_limit_status returned
    jpc,                  \* where the running research job stands
    job,                  \* the research job running
    job_todo,             \* run_monthly_update: brands still to research
    job_results,          \* run_monthly_update: results
    job_commits,          \* business rows the job committed
    job_ret,              \* what the job returned
    other,                \* a second get_tiktok_user call running at the same time
    overlapped            \* history: a call was admitted while another was in flight

limiterVars == <<hourly_limit, monthly_limit, requests_this_hour, requests_this_month>>
clientVars == <<cpc, caller, attempt, ret, checks, outcomes, recorded, backoffs,
                payload>>
storeVars == <<brand_handles, sync_logs, metrics, credit_usage>>
runVars == <<rpc, brands, idx, result, results, tiktok_success_count,
             instagram_success_count, error_count, sync_ret, fetched,
             persist_failed, brand_ids, query_brand_ids, entry, metrics_before,
             single_ret, http_status, request, delays>>
requestVars == <<brand_ids, query_brand_ids, entry, metrics_before, single_ret,
                 http_status, request>>
parseVars == <<raw, parsed>>
meterVars == <<monthly_budget, budget_ret, charge>>
jobVars == <<jpc, job, job_todo, job_results, job_commits, job_ret>>
raceVars == <<other, overlapped>>
restVars == <<parseVars, meterVars, limits_ret, jobVars>>
auxVars == <<restVars, raceVars>>
vars == <<now, limiterVars, clientVars, storeVars, runVars, auxVars>>

\* ------------------------------------------------------------- RateLimiter

Min(S) == CHOOSE x \in S : \A y \in S : x <= y

Range(s) == {s[i] : i \in 1..Len(s)}

\* [t for t in requests if t > cutoff]
KeepAfter(requests, cutoff) == SelectSeq(requests, LAMBDA t : t > cutoff)

\* _cleanup_old_requests that prunes the hourly list only.
cleanup_old_requests_houronly ==
    [hour  |-> KeepAfter(requests_this_hour, now - HourLen),
     month |-> requests_this_month]

\* RateLimiter._cleanup_old_requests: the two lists after pruning at `now`.
cleanup_old_requests ==
    [hour  |-> KeepAfter(requests_this_hour, now - HourLen),
     month |-> KeepAfter(requests_this_month, now - MonthLen)]

HourlyExceeded == "Hourly rate limit exceeded"
MonthlyExceeded == "Monthly rate limit exceeded (100 requests/month)"

\* can_make_request with the monthly limit looked at before the hourly one.
can_make_request_monthfirst ==
    LET c == cleanup_old_requests IN
    IF Len(c.month) >= monthly_limit
    THEN [allowed |-> FALSE, reason |-> MonthlyExceeded, wait |-> -1,
          hour |-> c.hour, month |-> c.month]
    ELSE IF Len(c.hour) >= hourly_limit
    THEN [allowed |-> FALSE, reason |-> HourlyExceeded,
          wait |-> IF c.hour # <<>> THEN HourLen - (now - Min(Range(c.hour))) ELSE -1,
          hour |-> c.hour, month |-> c.month]
    ELSE [allowed |-> TRUE, reason |-> NoError, wait |-> -1,
          hour |-> c.hour, month |-> c.month]

\* can_make_request with the hourly comparison off by one.
can_make_request_strict ==
    LET c == cleanup_old_requests IN
    IF Len(c.hour) > hourly_limit
    THEN [allowed |-> FALSE, reason |-> HourlyExceeded,
          wait |-> IF c.hour # <<>> THEN HourLen - (now - Min(Range(c.hour))) ELSE -1,
          hour |-> c.hour, month |-> c.month]
    ELSE IF Len(c.month) >= monthly_limit
    THEN [allowed |-> FALSE, reason |-> MonthlyExceeded, wait |-> -1,
          hour |-> c.hour, month |-> c.month]
    ELSE [allowed |-> TRUE, reason |-> NoError, wait |-> -1,
          hour |-> c.hour, month |-> c.month]

\* RateLimiter.can_make_request: (allowed, reason), the wait the hourly reason
\* carries, and the pruned lists it leaves in the limiter.
can_make_request ==
    LET c == cleanup_old_requests IN
    IF Len(c.hour) >= hourly_limit
    THEN [allowed |-> FALSE, reason |-> HourlyExceeded,
          wait |-> IF c.hour # <<>> THEN HourLen - (now - Min(Range(c.hour))) ELSE -1,
          hour |-> c.hour, month |-> c.month]
    ELSE IF Len(c.month) >= monthly_limit
    THEN [allowed |-> FALSE, reason |-> MonthlyExceeded, wait |-> -1,
          hour |-> c.hour, month |-> c.month]
    ELSE [allowed |-> TRUE, reason |-> NoError, wait |-> -1,
          hour |-> c.hour, month |-> c.month]

\* record_request with the call kept in the hourly list only.
record_request_houronly(hour, month) ==
    [hour |-> Append(hour, now), month |-> month]

\* RateLimiter.record_request on the lists `hour` and `month`.
record_request(hour, month) ==
    [hour |-> Append(hour, now), month |-> Append(month, now)]

\* TikTokAPI.get_rate_limit_status
get_rate_limit_status ==
    LET c == cleanup_old_requests IN
    [hourly_limit |-> hourly_limit,
     hourly_used |-> Len(c.hour),
     hourly_remaining |-> hourly_limit - Len(c.hour),
     monthly_limit |-> monthly_limit,
     monthly_used |-> Len(c.month),
     monthly_remaining |-> monthly_limit - Len(c.month)]

\* ---------------------------------------------------------------- TikTokAPI

\* What one requests.get can end in.
Responses == {"ok", "http429", "http404", "http401", "httpOther", "apiError"}
NoResponse == {"timeout", "requestError"}
Outcomes == Responses \cup NoResponse

Followers == 1..MaxFollowers

ErrLocalLimit(reason) == "Rate limit exceeded: " \o reason
Err429 == "Rate limit exceeded (429 from API)"
Err404 == "User not found (404)"
Err401 == "Invalid API key (401)"
ErrApi == "API Error"
ErrTimeout == "Request timeout after retries"
ErrFailed == "Request failed"

Success(f) == [success |-> TRUE, error |-> NoError, followers |-> f]
Failure(e) == [success |-> FALSE, error |-> e, followers |-> NoInt]
NoReturn == [success |-> FALSE, error |-> NoError, followers |-> NoInt]

\* TerminalError with a timeout raised at once instead of retried.
TerminalError_timeout(o) ==
    CASE o = "http429" -> Err429
      [] o = "http404" -> Err404
      [] o = "http401" -> Err401
      [] o = "apiError" -> ErrApi
      [] o = "timeout" -> ErrTimeout
      [] OTHER -> NoError

\* TerminalError with the 401 case missing.
TerminalError_no401(o) ==
    CASE o = "http429" -> Err429
      [] o = "http404" -> Err404
      [] o = "apiError" -> ErrApi
      [] OTHER -> NoError

\* The exception a response raises inside the try of _make_request before the
\* handlers see it: a TikTokAPIError (terminal) or none.
TerminalError(o) ==
    CASE o = "http429" -> Err429
      [] o = "http404" -> Err404
      [] o = "http401" -> Err401
      [] o = "apiError" -> ErrApi
      [] OTHER -> NoError

\* The outcomes the two except clauses of _make_request catch: Timeout, and
\* RequestException (a connection failure, or the HTTPError raise_for_status
\* raises for another 4xx/5xx status).
Retryable == {"timeout", "requestError", "httpOther"}

\* The wait growing by two seconds an attempt instead of doubling.
Backoff_linear(a) == 2 * a

\* The wait before the next attempt: 2 ** attempt.
Backoff(a) == 2 ^ a

\* StartFetch with the request recorded before the admission check.
StartFetch_records(who) ==
    /\ cpc = "idle"
    /\ LET r == can_make_request
           q == record_request(r.hour, r.month) IN
       /\ requests_this_hour' = q.hour
       /\ requests_this_month' = q.month
       /\ IF r.allowed
          THEN /\ cpc' = "attempt"
               /\ ret' = NoReturn
          ELSE /\ cpc' = "returned"
               /\ ret' = Failure(ErrLocalLimit(r.reason))
    /\ caller' = who
    /\ attempt' = 0
    /\ checks' = 1
    /\ outcomes' = <<>>
    /\ recorded' = 0
    /\ backoffs' = <<>>
    /\ payload' = NoInt
    /\ UNCHANGED <<hourly_limit, monthly_limit>>

\* StartFetch with a limiter of its own for every TikTokAPI instance: the
\* check sees none of the calls recorded before.
StartFetch_ownlimiter(who) ==
    /\ cpc = "idle"
    /\ cpc' = "attempt"
    /\ ret' = NoReturn
    /\ caller' = who
    /\ attempt' = 0
    /\ checks' = 1
    /\ outcomes' = <<>>
    /\ recorded' = 0
    /\ backoffs' = <<>>
    /\ payload' = NoInt
    /\ UNCHANGED limiterVars

\* The first part of get_tiktok_user -> get_user_info -> _make_request: the
\* admission check.  Rejected: the TikTokAPIError becomes the returned error.
StartFetch(who) ==
    /\ cpc = "idle"
    /\ LET r == can_make_request IN
       /\ requests_this_hour' = r.hour
       /\ requests_this_month' = r.month
       /\ IF r.allowed
          THEN /\ cpc' = "attempt"
               /\ ret' = NoReturn
          ELSE /\ cpc' = "returned"
               /\ ret' = Failure(ErrLocalLimit(r.reason))
    /\ caller' = who
    /\ attempt' = 0
    /\ checks' = 1
    /\ outcomes' = <<>>
    /\ recorded' = 0
    /\ backoffs' = <<>>
    /\ payload' = NoInt
    /\ UNCHANGED <<hourly_limit, monthly_limit>>

\* One iteration of the for loop of _make_request: requests.get, then
\* record_request when a response came back, then the status handling, the
\* except clauses and the backoff sleep.
Attempt(o, f) ==
    /\ cpc = "attempt"
    /\ outcomes' = Append(outcomes, o)
    /\ IF o \in Responses
       THEN LET r == record_request(requests_this_hour, requests_this_month) IN
            /\ requests_this_hour' = r.hour
            /\ requests_this_month' = r.month
            /\ recorded' = recorded + 1
       ELSE UNCHANGED <<requests_this_hour, requests_this_month, recorded>>
    /\ IF o = "ok"
       THEN /\ cpc' = "returned"
            /\ ret' = Success(f)
            /\ payload' = f
            /\ UNCHANGED <<attempt, backoffs>>
       ELSE IF TerminalError(o) # NoError
       THEN /\ cpc' = "returned"
            /\ ret' = Failure(TerminalError(o))
            /\ UNCHANGED <<attempt, backoffs, payload>>
       ELSE IF attempt < Retries
       THEN /\ backoffs' = Append(backoffs, Backoff(attempt))
            /\ attempt' = attempt + 1
            /\ UNCHANGED <<cpc, ret, payload>>
       ELSE /\ cpc' = "returned"
            /\ ret' = Failure(IF o = "timeout" THEN ErrTimeout ELSE ErrFailed)
            /\ UNCHANGED <<attempt, backoffs, payload>>
    /\ UNCHANGED <<hourly_limit, monthly_limit, caller, checks>>

\* /sync/test: get_tiktok_user called for a username, nothing saved.
TestSync ==
    /\ rpc \in {"idle", "done", "failed"}
    /\ StartFetch("test")
    /\ UNCHANGED <<now, auxVars, storeVars, runVars>>

\* One iteration of the retry loop, for whoever called.
MakeRequestAttempt ==
    /\ \E o \in Outcomes, f \in Followers : Attempt(o, f)
    /\ UNCHANGED <<now, auxVars, storeVars, runVars>>

\* The call is over: its locals are gone.
EndFetch ==
    /\ cpc' = "idle"
    /\ caller' = "none"
    /\ attempt' = 0
    /\ ret' = NoReturn
    /\ checks' = 0
    /\ outcomes' = <<>>
    /\ recorded' = 0
    /\ backoffs' = <<>>
    /\ payload' = NoInt

\* /sync/test returns what get_tiktok_user returned.
TestReturn ==
    /\ cpc = "returned"
    /\ caller = "test"
    /\ EndFetch
    /\ UNCHANGED <<now, auxVars, limiterVars, storeVars, runVars>>

\* The clock, which the model stops at `bound`.
Tick(bound) ==
    /\ now < bound
    /\ now' = now + 1
    /\ UNCHANGED <<limiterVars, clientVars, storeVars, runVars, auxVars>>

\* --------------------------------------------------------------- database.py

BrandIds == 1..NBrands
Platforms == {"tiktok", "instagram"}

\* create_sync_log: SyncLog(source=source, status='running'); started_at has
\* the column default, every other column is NULL.
NewSyncLog(id) ==
    [id |-> id, source |-> "social_media_api", status |-> "running",
     records_processed |-> NoInt, records_inserted |-> NoInt,
     records_updated |-> NoInt, error_message |-> NoError,
     started_at |-> now, completed_at |-> NoInt]

\* update_sync_log: the keyword arguments are set; completed_at is set only
\* when the new status is 'success' or 'error'.
update_sync_log(log, status, processed, inserted, updated, message) ==
    [log EXCEPT !.status = status,
                !.records_processed = processed,
                !.records_inserted = inserted,
                !.records_updated = updated,
                !.error_message = message,
                !.completed_at = IF status \in {"success", "error"}
                                 THEN now ELSE @]

\* SocialMetric(**metric_data): the columns the sync writes.
SocialMetric(brand_id, platform, followers, recorded_at) ==
    [brand_id |-> brand_id, platform |-> platform,
     followers |-> followers, recorded_at |-> recorded_at]

\* create_metric with a recorded_at that runs against the clock.
create_metric_backdated(table, brand_id, platform, followers) ==
    Append(table, SocialMetric(brand_id, platform, followers, MaxSyncTime - now))

\* create_metric as sync_brand calls it: one new row of social_metrics,
\* recorded_at = datetime.utcnow().
create_metric(table, brand_id, platform, followers) ==
    Append(table, SocialMetric(brand_id, platform, followers, now))

\* The rows a query filtered on brand_id, and on platform when one is given,
\* selects.
NoPlatform == "None"
FilterMetrics(table, brand_id, platform) ==
    {k \in 1..Len(table) :
        /\ table[k].brand_id = brand_id
        /\ (platform # NoPlatform => table[k].platform = platform)}

\* get_latest_metrics with the order ascending: the oldest row first.
get_latest_metrics_asc(table, brand_id, platform) ==
    LET sel == FilterMetrics(table, brand_id, platform) IN
    {k \in sel : \A j \in sel : table[j].recorded_at >= table[k].recorded_at}

\* get_latest_metrics: order_by(recorded_at.desc()).first().  The positions
\* of the rows the query can return: rows of equal recorded_at come in an
\* order the query does not fix; no row selected, no result.
get_latest_metrics(table, brand_id, platform) ==
    LET sel == FilterMetrics(table, brand_id, platform) IN
    {k \in sel : \A j \in sel : table[j].recorded_at <= table[k].recorded_at}

\* ------------------------------------------------------- SocialSyncService

\* Ascending sequence of the elements of a set of ids (the order of the query).
RECURSIVE SortedSeq(_)
SortedSeq(S) ==
    IF S = {} THEN <<>>
    ELSE LET m == Min(S) IN <<m>> \o SortedSeq(S \ {m})

HasHandle(b) == brand_handles[b].tiktok \/ brand_handles[b].instagram

\* get_brands_to_sync: the brands with at least one handle.
get_brands_to_sync == SortedSeq({b \in BrandIds : HasHandle(b)})

\* A request's brand_ids: None, or a list of ids (some may not exist).
NoIds == {0}
RequestIds == {NoIds} \cup SUBSET (1..(NBrands + 1))
\* None, or a list of ids of existing brands.
ExistingIds == {NoIds} \cup (SUBSET BrandIds \ {{}})

\* if brand_ids: query(Brand).filter(Brand.id.in_(brand_ids)) else
\* get_brands_to_sync().  None and the empty list are both falsy.
ResolveBrands(ids) ==
    IF ids # NoIds /\ ids # {}
    THEN SortedSeq(ids \cap BrandIds)
    ELSE get_brands_to_sync

NewResult(b) ==
    [brand_id |-> b, tiktok_success |-> FALSE, instagram_success |-> FALSE,
     tiktok_error |-> NoError, instagram_error |-> NoError,
     tiktok_followers |-> NoInt, instagram_followers |-> NoInt]

NoResult == NewResult(0)
ErrPersist == "create_metric failed"
ErrInstagram == "Instagram request failed"
ErrInstagramRaised == "get_instagram_user raised"
ErrCreateLog == "create_sync_log failed"
ErrQuery == "query(Brand) failed"
ErrCommit == "commit failed"
ErrUpdateLog == "update_sync_log failed"
StoreErrors == {ErrCreateLog, ErrQuery, ErrCommit, ErrUpdateLog}

\* The dictionary the module-level sync_all_brands returns.
NoSyncReturn ==
    [success |-> FALSE, error |-> NoError, sync_id |-> NoInt,
     total_brands |-> NoInt, tiktok_success |-> NoInt,
     instagram_success |-> NoInt, errors |-> NoInt]
NoRequest == [brand_ids |-> NoIds, sync_all |-> FALSE]

\* except Exception as e: return {"success": False, "error": str(e)}
SyncFailed(e) == [NoSyncReturn EXCEPT !.error = e]

\* sync_all_brands up to the loop: create_sync_log, then the brands query.
\* db says which of the two store calls, if any, raises.  Who called is set by
\* the caller's action.
StartSync(ids, db) ==
    /\ rpc \in {"idle", "done", "failed"}
    /\ cpc = "idle"
    /\ Len(sync_logs) < MaxRuns
    /\ sync_logs' = IF db = "log_fails" THEN sync_logs
                    ELSE Append(sync_logs, NewSyncLog(Len(sync_logs) + 1))
    /\ results' = <<>>
    /\ result' = NoResult
    /\ tiktok_success_count' = 0
    /\ instagram_success_count' = 0
    /\ error_count' = 0
    /\ idx' = 1
    /\ IF db = "ok"
       THEN /\ brands' = ResolveBrands(ids)
            /\ rpc' = IF brands' = <<>> THEN "finalize" ELSE "tiktok"
            /\ sync_ret' = NoSyncReturn
       ELSE /\ brands' = <<>>
            /\ rpc' = "failed"
            /\ sync_ret' = SyncFailed(IF db = "log_fails" THEN ErrCreateLog
                                      ELSE ErrQuery)
    /\ fetched' = <<>>
    /\ persist_failed' = {}
    /\ brand_ids' = ids
    /\ metrics_before' = Len(metrics)
    /\ delays' = 0
    /\ UNCHANGED <<now, auxVars, limiterVars, clientVars, brand_handles, metrics, credit_usage,
                   single_ret>>

\* A sync run started through POST /sync has returned and the response is
\* still to be made.
ResponsePending == entry = "api" /\ rpc \in {"done", "failed"} /\ http_status = 0

\* The module-level sync_all_brands called with brand_ids.
RunSync(ids, db) ==
    /\ ~ResponsePending
    /\ StartSync(ids, db)
    /\ entry' = "direct"
    /\ query_brand_ids' = NoIds
    /\ http_status' = 0
    /\ request' = NoRequest

\* if not brand_ids: neither None nor the empty list
Given(ids) == ids # NoIds /\ ids # {}

\* POST /sync up to the return of sync_all_brands: 400 unless brand_ids or
\* sync_all is given; the brands of the response are queried, and an
\* exception of that query is a 500; sync_all_brands gets the ids of the
\* brands found when brand_ids was given, None otherwise.
trigger_social_sync(ids, sync_all, db) ==
    /\ ~ResponsePending
    /\ rpc \in {"idle", "done", "failed"}
    /\ cpc = "idle"
    /\ request' = [brand_ids |-> ids, sync_all |-> sync_all]
    /\ IF (~Given(ids) /\ ~sync_all) \/ db = "endpoint_query_fails"
       THEN /\ http_status' = IF ~Given(ids) /\ ~sync_all THEN 400 ELSE 500
            /\ UNCHANGED <<now, auxVars, limiterVars, clientVars, storeVars, rpc,
                           brands, idx, result, results, tiktok_success_count,
                           instagram_success_count, error_count, sync_ret,
                           fetched, persist_failed, brand_ids, query_brand_ids,
                           entry, metrics_before, single_ret, delays>>
       ELSE /\ StartSync(IF Given(ids) THEN ids \cap BrandIds ELSE NoIds, db)
            /\ entry' = "api"
            /\ query_brand_ids' = ids
            /\ http_status' = 0

\* ApiReturn with a run that counted errors answered like a failed one.
ApiReturn_errors ==
    /\ ResponsePending
    /\ http_status' = IF sync_ret.success /\ sync_ret.errors = 0 THEN 200 ELSE 500
    /\ UNCHANGED <<now, auxVars, limiterVars, clientVars, storeVars, rpc, brands,
                   idx, result, results, tiktok_success_count,
                   instagram_success_count, error_count, sync_ret, fetched,
                   persist_failed, brand_ids, query_brand_ids, entry,
                   metrics_before, single_ret, request, delays>>

\* POST /sync after sync_all_brands returned: the summary when it reports
\* success, HTTPException(500) otherwise.
ApiReturn ==
    /\ ResponsePending
    /\ http_status' = IF sync_ret.success THEN 200 ELSE 500
    /\ UNCHANGED <<now, auxVars, limiterVars, clientVars, storeVars, rpc, brands,
                   idx, result, results, tiktok_success_count,
                   instagram_success_count, error_count, sync_ret, fetched,
                   persist_failed, brand_ids, query_brand_ids, entry,
                   metrics_before, single_ret, request, delays>>

\* sync_brand up to the return of get_tiktok_user: the new SyncResult and, for
\* a brand with a TikTok handle, the call.
SyncTikTok ==
    /\ rpc = "tiktok"
    /\ result' = NewResult(brands[idx])
    /\ IF brand_handles[brands[idx]].tiktok
       THEN /\ StartFetch("sync")
            /\ rpc' = "tiktok_wait"
            /\ fetched' = Append(fetched, <<brands[idx], "tiktok">>)
       ELSE /\ rpc' = "instagram"
            /\ UNCHANGED <<limiterVars, clientVars, fetched>>
    /\ UNCHANGED <<now, auxVars, requestVars, delays, storeVars, brands, idx, results, tiktok_success_count,
                   instagram_success_count, error_count, sync_ret, persist_failed>>

\* TikTokReturn with the exception of create_metric not caught by sync_brand.
TikTokReturn_raises(stored) ==
    /\ rpc = "tiktok_wait"
    /\ cpc = "returned"
    /\ caller = "sync"
    /\ IF ret.success
       THEN IF stored
            THEN /\ metrics' = create_metric(metrics, brands[idx], "tiktok", ret.followers)
                 /\ result' = [result EXCEPT !.tiktok_success = TRUE,
                                             !.tiktok_followers = ret.followers]
                 /\ rpc' = "instagram"
                 /\ UNCHANGED <<persist_failed, sync_ret>>
            ELSE /\ rpc' = "failed"
                 /\ sync_ret' = SyncFailed(ErrPersist)
                 /\ persist_failed' = persist_failed \cup {<<brands[idx], "tiktok">>}
                 /\ UNCHANGED <<metrics, result>>
       ELSE /\ result' = [result EXCEPT !.tiktok_error = ret.error]
            /\ rpc' = "instagram"
            /\ UNCHANGED <<metrics, persist_failed, sync_ret>>
    /\ delays' = IF ret.success /\ ~stored THEN delays ELSE delays + 1
    /\ EndFetch
    /\ UNCHANGED <<now, auxVars, requestVars, limiterVars, brand_handles, credit_usage, sync_logs, brands, idx,
                   results, tiktok_success_count, instagram_success_count,
                   error_count, fetched>>

\* TikTokReturn with tiktok_success set before create_metric is called.
TikTokReturn_flagfirst(stored) ==
    /\ rpc = "tiktok_wait"
    /\ cpc = "returned"
    /\ caller = "sync"
    /\ IF ret.success
       THEN IF stored
            THEN /\ metrics' = create_metric(metrics, brands[idx], "tiktok", ret.followers)
                 /\ result' = [result EXCEPT !.tiktok_success = TRUE,
                                             !.tiktok_followers = ret.followers]
                 /\ UNCHANGED persist_failed
            ELSE /\ result' = [result EXCEPT !.tiktok_success = TRUE,
                                             !.tiktok_error = ErrPersist]
                 /\ persist_failed' = persist_failed \cup {<<brands[idx], "tiktok">>}
                 /\ UNCHANGED metrics
       ELSE /\ result' = [result EXCEPT !.tiktok_error = ret.error]
            /\ UNCHANGED <<metrics, persist_failed>>
    /\ delays' = IF ret.success /\ ~stored THEN delays ELSE delays + 1
    /\ EndFetch
    /\ rpc' = "instagram"
    /\ UNCHANGED <<now, auxVars, requestVars, limiterVars, brand_handles, credit_usage, sync_logs, brands, idx,
                   results, tiktok_success_count, instagram_success_count,
                   error_count, sync_ret, fetched>>

\* TikTokReturn with a row written for a failed fetch as well.
TikTokReturn_writesfailed(stored) ==
    /\ rpc = "tiktok_wait"
    /\ cpc = "returned"
    /\ caller = "sync"
    /\ IF ret.success
       THEN IF stored
            THEN /\ metrics' = create_metric(metrics, brands[idx], "tiktok", ret.followers)
                 /\ result' = [result EXCEPT !.tiktok_success = TRUE,
                                             !.tiktok_followers = ret.followers]
                 /\ UNCHANGED persist_failed
            ELSE /\ result' = [result EXCEPT !.tiktok_error = ErrPersist]
                 /\ persist_failed' = persist_failed \cup {<<brands[idx], "tiktok">>}
                 /\ UNCHANGED metrics
       ELSE /\ result' = [result EXCEPT !.tiktok_error = ret.error]
            /\ metrics' = create_metric(metrics, brands[idx], "tiktok", ret.followers)
            /\ UNCHANGED persist_failed
    /\ delays' = IF ret.success /\ ~stored THEN delays ELSE delays + 1
    /\ EndFetch
    /\ rpc' = "instagram"
    /\ UNCHANGED <<now, auxVars, requestVars, limiterVars, brand_handles, credit_usage, sync_logs, brands, idx,
                   results, tiktok_success_count, instagram_success_count,
                   error_count, sync_ret, fetched>>

\* sync_brand after get_tiktok_user returned: create_metric on success (stored
\* says whether it commits or raises), the error otherwise.
TikTokReturn(stored) ==
    /\ rpc = "tiktok_wait"
    /\ cpc = "returned"
    /\ caller = "sync"
    /\ IF ret.success
       THEN IF stored
            THEN /\ metrics' = create_metric(metrics, brands[idx], "tiktok", ret.followers)
                 /\ result' = [result EXCEPT !.tiktok_success = TRUE,
                                             !.tiktok_followers = ret.followers]
                 /\ UNCHANGED persist_failed
            ELSE /\ result' = [result EXCEPT !.tiktok_error = ErrPersist]
                 /\ persist_failed' = persist_failed \cup {<<brands[idx], "tiktok">>}
                 /\ UNCHANGED metrics
       ELSE /\ result' = [result EXCEPT !.tiktok_error = ret.error]
            /\ UNCHANGED <<metrics, persist_failed>>
    /\ delays' = IF ret.success /\ ~stored THEN delays ELSE delays + 1
    /\ EndFetch
    /\ rpc' = "instagram"
    /\ UNCHANGED <<now, auxVars, requestVars, limiterVars, brand_handles, credit_usage, sync_logs, brands, idx,
                   results, tiktok_success_count, instagram_success_count,
                   error_count, sync_ret, fetched>>

\* The fetch of the Instagram client for one handle, as one step: the
\* dictionary it returns when it returns one.
InstagramOutcomes == {"ok", "error", "raises"}
get_instagram_user(o, f) ==
    IF o = "ok" THEN Success(f) ELSE Failure(ErrInstagram)

\* SyncInstagram with the sync log marked partial as soon as a fetch fails.
SyncInstagram_updates(o, f, stored) ==
    /\ rpc = "instagram"
    /\ IF brand_handles[brands[idx]].instagram
       THEN LET data == get_instagram_user(o, f) IN
            IF o = "raises"
            THEN /\ result' = [result EXCEPT !.instagram_error = ErrInstagramRaised]
                 /\ UNCHANGED <<metrics, persist_failed>>
            ELSE IF data.success
            THEN IF stored
                 THEN /\ metrics' = create_metric(metrics, brands[idx], "instagram",
                                                  data.followers)
                      /\ result' = [result EXCEPT !.instagram_success = TRUE,
                                                  !.instagram_followers = data.followers]
                      /\ UNCHANGED persist_failed
                 ELSE /\ result' = [result EXCEPT !.instagram_error = ErrPersist]
                      /\ persist_failed' =
                             persist_failed \cup {<<brands[idx], "instagram">>}
                      /\ UNCHANGED metrics
            ELSE /\ result' = [result EXCEPT !.instagram_error = data.error]
                 /\ UNCHANGED <<metrics, persist_failed>>
       ELSE UNCHANGED <<result, metrics, persist_failed>>
    /\ fetched' = IF brand_handles[brands[idx]].instagram
                  THEN Append(fetched, <<brands[idx], "instagram">>)
                  ELSE fetched
    /\ delays' = IF /\ brand_handles[brands[idx]].instagram
                     /\ o # "raises"
                     /\ ~(o = "ok" /\ ~stored)
                  THEN delays + 1
                  ELSE delays
    /\ rpc' = "commit"
    /\ sync_logs' = IF sync_logs # <<>> /\ o = "error"
                    THEN [sync_logs EXCEPT ![Len(sync_logs)].status = "partial"]
                    ELSE sync_logs
    /\ UNCHANGED <<now, auxVars, requestVars, limiterVars, clientVars, brand_handles, credit_usage, brands,
                   idx, results, tiktok_success_count, instagram_success_count,
                   error_count, sync_ret>>

\* sync_brand, the Instagram half: the call, create_metric on success, the
\* error otherwise; an exception of the call is caught like one of
\* create_metric.
SyncInstagram(o, f, stored) ==
    /\ rpc = "instagram"
    /\ IF brand_handles[brands[idx]].instagram
       THEN LET data == get_instagram_user(o, f) IN
            IF o = "raises"
            THEN /\ result' = [result EXCEPT !.instagram_error = ErrInstagramRaised]
                 /\ UNCHANGED <<metrics, persist_failed>>
            ELSE IF data.success
            THEN IF stored
                 THEN /\ metrics' = create_metric(metrics, brands[idx], "instagram",
                                                  data.followers)
                      /\ result' = [result EXCEPT !.instagram_success = TRUE,
                                                  !.instagram_followers = data.followers]
                      /\ UNCHANGED persist_failed
                 ELSE /\ result' = [result EXCEPT !.instagram_error = ErrPersist]
                      /\ persist_failed' =
                             persist_failed \cup {<<brands[idx], "instagram">>}
                      /\ UNCHANGED metrics
            ELSE /\ result' = [result EXCEPT !.instagram_error = data.error]
                 /\ UNCHANGED <<metrics, persist_failed>>
       ELSE UNCHANGED <<result, metrics, persist_failed>>
    /\ fetched' = IF brand_handles[brands[idx]].instagram
                  THEN Append(fetched, <<brands[idx], "instagram">>)
                  ELSE fetched
    /\ delays' = IF /\ brand_handles[brands[idx]].instagram
                     /\ o # "raises"
                     /\ ~(o = "ok" /\ ~stored)
                  THEN delays + 1
                  ELSE delays
    /\ rpc' = "commit"
    /\ UNCHANGED <<now, auxVars, requestVars, limiterVars, clientVars, brand_handles, credit_usage, sync_logs, brands,
                   idx, results, tiktok_success_count, instagram_success_count,
                   error_count, sync_ret>>

\* BrandDone with the loop left at the first brand that has an error.
BrandDone_break(committed) ==
    /\ rpc = "commit"
    /\ entry # "single"
    /\ results' = Append(results, result)
    /\ tiktok_success_count' =
           tiktok_success_count + (IF result.tiktok_success THEN 1 ELSE 0)
    /\ instagram_success_count' =
           instagram_success_count + (IF result.instagram_success THEN 1 ELSE 0)
    /\ error_count' =
           error_count + (IF result.tiktok_error # NoError
                             \/ result.instagram_error # NoError THEN 1 ELSE 0)
    /\ IF committed
       THEN /\ rpc' = IF idx < Len(brands) /\ error_count' = 0
                      THEN "tiktok" ELSE "finalize"
            /\ idx' = idx + 1
            /\ UNCHANGED sync_ret
       ELSE /\ rpc' = "failed"
            /\ sync_ret' = SyncFailed(ErrCommit)
            /\ UNCHANGED idx
    /\ UNCHANGED <<now, auxVars, requestVars, delays, limiterVars, clientVars, storeVars, brands, result,
                   fetched, persist_failed>>

\* BrandDone with error_count counting platform errors.
BrandDone_perplatform(committed) ==
    /\ rpc = "commit"
    /\ entry # "single"
    /\ results' = Append(results, result)
    /\ tiktok_success_count' =
           tiktok_success_count + (IF result.tiktok_success THEN 1 ELSE 0)
    /\ instagram_success_count' =
           instagram_success_count + (IF result.instagram_success THEN 1 ELSE 0)
    /\ error_count' =
           error_count + (IF result.tiktok_error # NoError THEN 1 ELSE 0)
                       + (IF result.instagram_error # NoError THEN 1 ELSE 0)
    /\ IF committed
       THEN /\ rpc' = IF idx < Len(brands) THEN "tiktok" ELSE "finalize"
            /\ idx' = idx + 1
            /\ UNCHANGED sync_ret
       ELSE /\ rpc' = "failed"
            /\ sync_ret' = SyncFailed(ErrCommit)
            /\ UNCHANGED idx
    /\ UNCHANGED <<now, auxVars, requestVars, delays, limiterVars, clientVars, storeVars, brands, result,
                   fetched, persist_failed>>

\* The rest of one loop iteration of sync_all_brands: the counters, then
\* self.db.commit(), which raises when committed is false.
BrandDone(committed) ==
    /\ rpc = "commit"
    /\ entry # "single"
    /\ results' = Append(results, result)
    /\ tiktok_success_count' =
           tiktok_success_count + (IF result.tiktok_success THEN 1 ELSE 0)
    /\ instagram_success_count' =
           instagram_success_count + (IF result.instagram_success THEN 1 ELSE 0)
    /\ error_count' =
           error_count + (IF result.tiktok_error # NoError
                             \/ result.instagram_error # NoError THEN 1 ELSE 0)
    /\ IF committed
       THEN /\ rpc' = IF idx < Len(brands) THEN "tiktok" ELSE "finalize"
            /\ idx' = idx + 1
            /\ UNCHANGED sync_ret
       ELSE /\ rpc' = "failed"
            /\ sync_ret' = SyncFailed(ErrCommit)
            /\ UNCHANGED idx
    /\ UNCHANGED <<now, auxVars, requestVars, delays, limiterVars, clientVars, storeVars, brands, result,
                   fetched, persist_failed>>

\* Finalize with a run in which every brand had an error logged as error.
Finalize_allfailed(updated) ==
    /\ rpc = "finalize"
    /\ IF updated
       THEN /\ sync_logs' =
                [sync_logs EXCEPT ![Len(sync_logs)] =
                    update_sync_log(@,
                        IF error_count = 0 THEN "success"
                        ELSE IF error_count = Len(brands) THEN "error"
                        ELSE "partial",
                        Len(brands),
                        tiktok_success_count + instagram_success_count,
                        0,
                        IF error_count = 0 THEN NoError
                        ELSE ToString(error_count) \o " errors occurred")]
            /\ rpc' = "done"
            /\ sync_ret' = [success |-> TRUE, error |-> NoError,
                            sync_id |-> Len(sync_logs),
                            total_brands |-> Len(brands),
                            tiktok_success |-> tiktok_success_count,
                            instagram_success |-> instagram_success_count,
                            errors |-> error_count]
       ELSE /\ rpc' = "failed"
            /\ sync_ret' = SyncFailed(ErrUpdateLog)
            /\ UNCHANGED sync_logs
    /\ UNCHANGED <<now, auxVars, requestVars, delays, limiterVars, clientVars, brand_handles, credit_usage, metrics, brands,
                   idx, result, results, tiktok_success_count,
                   instagram_success_count, error_count, fetched, persist_failed>>

\* Finalize with records_inserted counting the fetches made.
Finalize_fetched(updated) ==
    /\ rpc = "finalize"
    /\ IF updated
       THEN /\ sync_logs' =
                [sync_logs EXCEPT ![Len(sync_logs)] =
                    update_sync_log(@,
                        IF error_count = 0 THEN "success" ELSE "partial",
                        Len(brands),
                        Len(fetched),
                        0,
                        IF error_count = 0 THEN NoError
                        ELSE ToString(error_count) \o " errors occurred")]
            /\ rpc' = "done"
            /\ sync_ret' = [success |-> TRUE, error |-> NoError,
                            sync_id |-> Len(sync_logs),
                            total_brands |-> Len(brands),
                            tiktok_success |-> tiktok_success_count,
                            instagram_success |-> instagram_success_count,
                            errors |-> error_count]
       ELSE /\ rpc' = "failed"
            /\ sync_ret' = SyncFailed(ErrUpdateLog)
            /\ UNCHANGED sync_logs
    /\ UNCHANGED <<now, auxVars, requestVars, delays, limiterVars, clientVars, brand_handles, credit_usage, metrics, brands,
                   idx, result, results, tiktok_success_count,
                   instagram_success_count, error_count, fetched, persist_failed>>

\* sync_all_brands after the loop: update_sync_log and the summary.
Finalize(updated) ==
    /\ rpc = "finalize"
    /\ IF updated
       THEN /\ sync_logs' =
                [sync_logs EXCEPT ![Len(sync_logs)] =
                    update_sync_log(@,
                        IF error_count = 0 THEN "success" ELSE "partial",
                        Len(brands),
                        tiktok_success_count + instagram_success_count,
                        0,
                        IF error_count = 0 THEN NoError
                        ELSE ToString(error_count) \o " errors occurred")]
            /\ rpc' = "done"
            /\ sync_ret' = [success |-> TRUE, error |-> NoError,
                            sync_id |-> Len(sync_logs),
                            total_brands |-> Len(brands),
                            tiktok_success |-> tiktok_success_count,
                            instagram_success |-> instagram_success_count,
                            errors |-> error_count]
       ELSE /\ rpc' = "failed"
            /\ sync_ret' = SyncFailed(ErrUpdateLog)
            /\ UNCHANGED sync_logs
    /\ UNCHANGED <<now, auxVars, requestVars, delays, limiterVars, clientVars, brand_handles, credit_usage, metrics, brands,
                   idx, result, results, tiktok_success_count,
                   instagram_success_count, error_count, fetched, persist_failed>>

\* ------------------------------------------------------------ process killed

\* Crash where the rows of the run were part of one transaction committed at
\* the end of the run: they are rolled back.
Crash_rollback ==
    /\ rpc \notin {"idle", "done", "failed", "crashed"}
    /\ rpc' = "crashed"
    /\ EndFetch
    /\ requests_this_hour' = <<>>
    /\ requests_this_month' = <<>>
    /\ brands' = <<>>
    /\ idx' = 1
    /\ result' = NoResult
    /\ results' = <<>>
    /\ tiktok_success_count' = 0
    /\ instagram_success_count' = 0
    /\ error_count' = 0
    /\ fetched' = <<>>
    /\ persist_failed' = {}
    /\ metrics' = SubSeq(metrics, 1, metrics_before)
    /\ UNCHANGED <<now, hourly_limit, monthly_limit, brand_handles, sync_logs,
                   credit_usage, auxVars, sync_ret, requestVars, delays>>

\* The process is killed while sync_all_brands runs: what it held in memory
\* (the locals of the run and of the fetch, the lists of the limiter) is gone,
\* what create_sync_log, create_metric and db.commit() committed stays.
Crash ==
    /\ rpc \notin {"idle", "done", "failed", "crashed"}
    /\ rpc' = "crashed"
    /\ EndFetch
    /\ requests_this_hour' = <<>>
    /\ requests_this_month' = <<>>
    /\ brands' = <<>>
    /\ idx' = 1
    /\ result' = NoResult
    /\ results' = <<>>
    /\ tiktok_success_count' = 0
    /\ instagram_success_count' = 0
    /\ error_count' = 0
    /\ fetched' = <<>>
    /\ persist_failed' = {}
    /\ UNCHANGED <<now, hourly_limit, monthly_limit, storeVars, auxVars, sync_ret,
                   requestVars, delays>>

\* ------------------------------------------------------- sync_single_brand

ErrNotFound == "Brand not found"
NoSingleReturn == [success |-> FALSE, error |-> NoError]

\* SingleStart with a sync log opened for the brand.
SingleStart_logs(b, db) ==
    /\ rpc \in {"idle", "done", "failed"}
    /\ cpc = "idle"
    /\ Len(metrics) < MaxMetrics
    /\ entry' = "single"
    /\ brand_ids' = NoIds
    /\ query_brand_ids' = NoIds
    /\ metrics_before' = Len(metrics)
    /\ delays' = 0
    /\ UNCHANGED <<http_status, request>>
    /\ results' = <<>>
    /\ result' = NoResult
    /\ tiktok_success_count' = 0
    /\ instagram_success_count' = 0
    /\ error_count' = 0
    /\ idx' = 1
    /\ fetched' = <<>>
    /\ persist_failed' = {}
    /\ sync_ret' = NoSyncReturn
    /\ sync_logs' = Append(sync_logs, NewSyncLog(Len(sync_logs) + 1))
    /\ IF db = "query_fails"
       THEN /\ brands' = <<>>
            /\ rpc' = "failed"
            /\ single_ret' = [success |-> FALSE, error |-> ErrQuery]
       ELSE IF b \notin BrandIds
       THEN /\ brands' = <<>>
            /\ rpc' = "failed"
            /\ single_ret' = [success |-> FALSE, error |-> ErrNotFound]
       ELSE /\ brands' = <<b>>
            /\ rpc' = "tiktok"
            /\ single_ret' = NoSingleReturn
    /\ UNCHANGED <<now, auxVars, limiterVars, clientVars, brand_handles, metrics, credit_usage>>

\* sync_single_brand up to the call of sync_brand: the brand is queried by
\* id; the query raising, or no such brand, is returned as an error.
SingleStart(b, db) ==
    /\ rpc \in {"idle", "done", "failed"}
    /\ cpc = "idle"
    /\ Len(metrics) < MaxMetrics
    /\ entry' = "single"
    /\ brand_ids' = NoIds
    /\ query_brand_ids' = NoIds
    /\ metrics_before' = Len(metrics)
    /\ delays' = 0
    /\ UNCHANGED <<http_status, request>>
    /\ results' = <<>>
    /\ result' = NoResult
    /\ tiktok_success_count' = 0
    /\ instagram_success_count' = 0
    /\ error_count' = 0
    /\ idx' = 1
    /\ fetched' = <<>>
    /\ persist_failed' = {}
    /\ sync_ret' = NoSyncReturn
    /\ IF db = "query_fails"
       THEN /\ brands' = <<>>
            /\ rpc' = "failed"
            /\ single_ret' = [success |-> FALSE, error |-> ErrQuery]
       ELSE IF b \notin BrandIds
       THEN /\ brands' = <<>>
            /\ rpc' = "failed"
            /\ single_ret' = [success |-> FALSE, error |-> ErrNotFound]
       ELSE /\ brands' = <<b>>
            /\ rpc' = "tiktok"
            /\ single_ret' = NoSingleReturn
    /\ UNCHANGED <<now, auxVars, limiterVars, clientVars, storeVars>>

\* sync_single_brand after sync_brand returned: service.db.commit(), which
\* raises when committed is false, and the returned dictionary.
SingleDone(committed) ==
    /\ rpc = "commit"
    /\ entry = "single"
    /\ IF committed
       THEN /\ rpc' = "done"
            /\ single_ret' = [success |-> TRUE, error |-> NoError]
       ELSE /\ rpc' = "failed"
            /\ single_ret' = [success |-> FALSE, error |-> ErrCommit]
    /\ UNCHANGED <<now, auxVars, limiterVars, clientVars, storeVars, brands, idx, result,
                   results, tiktok_success_count, instagram_success_count,
                   error_count, sync_ret, fetched, persist_failed, brand_ids,
                   query_brand_ids, entry, metrics_before, http_status, request,
                   delays>>

\* ------------------------------------------------------ writers of metrics

\* create_metric called outside a sync run with recorded_at = utcnow().
WriteMetric(b, p, f) ==
    /\ Len(metrics) < MaxMetrics
    /\ metrics' = create_metric(metrics, b, p, f)
    /\ UNCHANGED <<now, auxVars, limiterVars, clientVars, brand_handles, sync_logs,
                   credit_usage, runVars>>

\* sheets_sync, one row of the Metrics sheet: create_metric with recorded_at
\* the date of the row.
ImportMetricRow(b, p, f, date) ==
    /\ Len(metrics) < MaxMetrics
    /\ metrics' = Append(metrics, SocialMetric(b, p, f, date))
    /\ UNCHANGED <<now, auxVars, limiterVars, clientVars, brand_handles, sync_logs,
                   credit_usage, runVars>>


\* -------------------------------------------- values before the first call

NoRaw == [type |-> "unset", text |-> <<>>, num |-> 0]
NoParsed == [raised |-> "None", value |-> NoInt]
NoLimits ==
    [hourly_limit |-> 0, hourly_used |-> 0, hourly_remaining |-> 0,
     monthly_limit |-> 0, monthly_used |-> 0, monthly_remaining |-> 0]
NoJobReturn == [returned |-> FALSE, raised |-> FALSE, success |-> FALSE]
NoOther == [pc |-> "idle", attempt |-> 0, recorded |-> 0, ret |-> NoReturn]


\* ------------------------------------------------- TikTokAPI._parse_number

\* A string is a sequence of the characters below; "inf" and "nan" stand for
\* the three letters each, "x" for any other letter.
Chars == {"1", "2", ".", ",", "k", "K", "m", "M", "inf", "nan", "x", " "}
Digits == {"1", "2"}
Strings == UNION {[1..n -> Chars] : n \in 0..MaxLen}

\* The values of a field of the JSON payload: null, an integer, a float (in
\* tenths), the floats Infinity and NaN, a string, a list or object.
RawValues ==
    {[type |-> t, text |-> <<>>, num |-> 0] : t \in {"null", "inf", "nan", "other"}}
        \cup {[type |-> "int", text |-> <<>>, num |-> n] : n \in 0..MaxFollowers}
        \cup {[type |-> "float", text |-> <<>>, num |-> n] : n \in {0, 15, 25}}
        \cup {[type |-> "str", text |-> s, num |-> 0] : s \in Strings}

\* str.upper()
upper(s) ==
    [i \in 1..Len(s) |->
        CASE s[i] = "k" -> "K"
          [] s[i] = "m" -> "M"
          [] s[i] = "inf" -> "INF"
          [] s[i] = "nan" -> "NAN"
          [] s[i] = "x" -> "X"
          [] OTHER -> s[i]]

\* str.replace(c, '')
replace(s, c) == SelectSeq(s, LAMBDA t : t # c)

\* str.strip()
strip(s) ==
    LET inked == {i \in 1..Len(s) : s[i] # " "}
    IN IF inked = {} THEN <<>>
       ELSE SubSeq(s, Min(inked), CHOOSE i \in inked : \A j \in inked : j <= i)

\* The number a sequence of digits writes.
RECURSIVE Decimal(_)
Decimal(s) ==
    IF s = <<>> THEN 0
    ELSE Decimal(SubSeq(s, 1, Len(s) - 1)) * 10
             + (IF s[Len(s)] = "1" THEN 1 ELSE 2)

Pow10(n) == 10 ^ n

\* float(s): surrounding blanks are ignored; inf and nan are floats; digits
\* with at most one point and at least one digit are the number num /
\* 10^scale; anything else is a ValueError.
float(s) ==
    LET t == strip(s)
        points == {i \in 1..Len(t) : t[i] = "."}
        digits == SelectSeq(t, LAMBDA c : c \in Digits)
    IN IF t = <<"INF">> THEN [kind |-> "inf", num |-> 0, scale |-> 0]
       ELSE IF t = <<"NAN">> THEN [kind |-> "nan", num |-> 0, scale |-> 0]
       ELSE IF /\ \A i \in 1..Len(t) : t[i] \in Digits \cup {"."}
               /\ Cardinality(points) <= 1
               /\ digits # <<>>
       THEN [kind |-> "num", num |-> Decimal(digits),
             scale |-> IF points = {} THEN 0
                       ELSE Len(t) - (CHOOSE i \in points : TRUE)]
       ELSE [kind |-> "ValueError", num |-> 0, scale |-> 0]

Parsed(v) == [raised |-> "None", value |-> v]
Raised(e) == [raised |-> e, value |-> NoInt]

\* int(f * factor) for a float f: the product cut to an integer; Infinity is
\* an OverflowError and NaN a ValueError.
int_of_float(f, factor) ==
    CASE f.kind = "inf" -> Raised("OverflowError")
      [] f.kind = "nan" -> Raised("ValueError")
      [] f.kind = "ValueError" -> Raised("ValueError")
      [] OTHER -> Parsed((f.num * factor) \div Pow10(f.scale))

\* int(s) for a string: digits between blanks, a ValueError otherwise.
int_of_str(s) ==
    LET t == strip(s)
    IN IF t # <<>> /\ \A i \in 1..Len(t) : t[i] \in Digits
       THEN Parsed(Decimal(t))
       ELSE Raised("ValueError")

\* except ValueError: return 0
except_ValueError(r) == IF r.raised = "ValueError" THEN Parsed(0) ELSE r

\* _parse_number: None is 0; an int or a float goes through int(); a string
\* is upper-cased, its commas removed, stripped, and read as millions with an
\* M in it, as thousands with a K, as an integer otherwise, a ValueError of
\* these conversions giving 0; any other value is 0.
parse_number(value) ==
    CASE value.type = "null" -> Parsed(0)
      [] value.type = "int" -> Parsed(value.num)
      [] value.type = "float" -> Parsed(value.num \div 10)
      [] value.type = "inf" -> Raised("OverflowError")
      [] value.type = "nan" -> Raised("ValueError")
      [] value.type = "str" ->
           LET s == strip(replace(upper(value.text), ","))
           IN except_ValueError(
                  IF \E i \in 1..Len(s) : s[i] = "M"
                  THEN int_of_float(float(replace(s, "M")), 1000000)
                  ELSE IF \E i \in 1..Len(s) : s[i] = "K"
                  THEN int_of_float(float(replace(s, "K")), 1000)
                  ELSE int_of_str(s))
      [] OTHER -> Parsed(0)

\* get_user_info reads a count of the payload: followers =
\* _parse_number(stats.get('followerCount', 0)).
ParseNumber ==
    /\ parsed = NoParsed
    /\ parsed' = parse_number(raw)
    /\ UNCHANGED <<now, limiterVars, clientVars, storeVars, runVars, raw, meterVars,
                   limits_ret, jobVars, raceVars>>


\* GET /sync/limits: get_rate_limit_status prunes both lists and returns the
\* limits with the calls used and remaining.
GetRateLimits ==
    /\ cpc = "idle"
    /\ LET c == cleanup_old_requests IN
       /\ requests_this_hour' = c.hour
       /\ requests_this_month' = c.month
    /\ limits_ret' = get_rate_limit_status
    /\ UNCHANGED <<now, hourly_limit, monthly_limit, clientVars, storeVars, runVars,
                   parseVars, meterVars, jobVars, raceVars>>

\* ----------------------------------------------------------- CreditsTracker

\* Amounts of money are integers, in units of 0.0001 USD; 100 units are a cent.
Cent == 100

\* class OperationType
OperationType == {"api_call_tiktok", "api_call_instagram", "api_call_web_search",
                  "database_query", "research_job", "compute_time"}

DEFAULT_COSTS ==
    [op \in OperationType |->
        CASE op = "api_call_tiktok" -> 10
          [] op = "api_call_instagram" -> 10
          [] op = "api_call_web_search" -> 100
          [] op = "database_query" -> 1
          [] op = "research_job" -> 500
          [] op = "compute_time" -> 100]

DEFAULT_MONTHLY_BUDGET == 1000000

\* _load_costs with no COST_* variable in the environment: every member of
\* OperationType gets its default, 0.0 when DEFAULT_COSTS has none.
costs ==
    [op \in OperationType |->
        IF op \in DOMAIN DEFAULT_COSTS THEN DEFAULT_COSTS[op] ELSE 0]

\* custom_cost = None
NoCost == -1
NoCharge ==
    [op |-> "None", metadata |-> "None", custom_cost |-> NoCost, raised |-> FALSE]

\* CreditUsage(operation_type, cost_usd, metadata_json, created_at); of the
\* metadata, the platform of an API call or the job type of a research job.
NoMetadata == "None"
CreditUsage(operation_type, cost_usd, metadata, created_at) ==
    [operation_type |-> operation_type, cost_usd |-> cost_usd,
     metadata |-> metadata, created_at |-> created_at]

NoBudgetStatus ==
    [monthly_budget |-> 0, used_amount |-> -1, remaining_amount |-> -1,
     percent_used |-> -1, is_over_budget |-> FALSE, projected_monthly |-> -1]

\* log_usage with the unit cost charged even when custom_cost is 0.
log_usage_falsy(operation_type, metadata, custom_cost, db_ok) ==
    /\ Len(credit_usage) < MaxEntries
    /\ LET cost == IF custom_cost # NoCost /\ custom_cost # 0 THEN custom_cost
                   ELSE costs[operation_type]
       IN credit_usage' =
              IF db_ok
              THEN Append(credit_usage,
                          CreditUsage(operation_type, cost, metadata, now))
              ELSE credit_usage
    /\ charge' = [op |-> operation_type, metadata |-> metadata,
                  custom_cost |-> custom_cost, raised |-> ~db_ok]
    /\ budget_ret' = NoBudgetStatus

\* log_usage: cost = custom_cost if custom_cost is not None else
\* costs.get(operation_type, 0.0); the row is added and committed, and an
\* exception of the store (db_ok false) leaves no row and is raised.
log_usage(operation_type, metadata, custom_cost, db_ok) ==
    /\ Len(credit_usage) < MaxEntries
    /\ LET cost == IF custom_cost # NoCost THEN custom_cost
                   ELSE IF operation_type \in DOMAIN costs
                        THEN costs[operation_type] ELSE 0
       IN credit_usage' =
              IF db_ok
              THEN Append(credit_usage,
                          CreditUsage(operation_type, cost, metadata, now))
              ELSE credit_usage
    /\ charge' = [op |-> operation_type, metadata |-> metadata,
                  custom_cost |-> custom_cost, raised |-> ~db_ok]
    /\ budget_ret' = NoBudgetStatus

\* The frame of a call of the tracker.
MeterFrame ==
    UNCHANGED <<now, limiterVars, clientVars, brand_handles, sync_logs, metrics,
                runVars, parseVars, monthly_budget, limits_ret, jobVars, raceVars>>

LogUsage(operation_type, custom_cost, db_ok) ==
    /\ log_usage(operation_type, NoMetadata, custom_cost, db_ok)
    /\ MeterFrame

\* CreditsTracker.log_api_call: the operation_type of the entry it logs for a
\* platform, that of a web search for every name but tiktok and instagram.
ApiCallType(platform) ==
    IF platform = "tiktok" THEN "api_call_tiktok"
    ELSE IF platform = "instagram" THEN "api_call_instagram"
    ELSE "api_call_web_search"

\* log_api_call(platform): log_usage(op_type, desc, meta).
LogApiCall(platform, db_ok) ==
    /\ log_usage(ApiCallType(platform), platform, NoCost, db_ok)
    /\ MeterFrame

\* log_compute_time: custom_cost = costs[COMPUTE_TIME] * minutes.
LogComputeTime(minutes, db_ok) ==
    /\ log_usage("compute_time", NoMetadata, costs["compute_time"] * minutes, db_ok)
    /\ MeterFrame

\* sum of cost_usd
RECURSIVE SumCost(_)
SumCost(rows) ==
    IF rows = <<>> THEN 0 ELSE rows[1].cost_usd + SumCost(Tail(rows))

\* get_usage_for_period(days).total_cost, a day of the period being one tick:
\* the rows with created_at >= utcnow() - timedelta(days).
get_usage_for_period(days) ==
    SumCost(SelectSeq(credit_usage, LAMBDA r : r.created_at >= now - days))

\* round(x / d, 0) for d > 0: the nearest integers of x / d.  A tie goes to
\* the neighbour the binary value of the float is closer to, either here.
Nearest(x, d) ==
    LET lo == x \div d
        r == x - lo * d
    IN IF 2 * r < d THEN {lo}
       ELSE IF 2 * r > d THEN {lo + 1}
       ELSE {lo, lo + 1}

\* round(amount, 2): the amount to the cent, in units.
Round2(amount) == {c * Cent : c \in Nearest(amount, Cent)}

Max(a, b) == IF a >= b THEN a ELSE b

\* get_budget_status with the factor of the projection upside down:
\* max(1, day) / 30.
get_budget_status_inverted(day) ==
    LET total_cost == get_usage_for_period(MonthLen)
        remaining == monthly_budget - total_cost
    IN UNION {{[monthly_budget |-> monthly_budget,
         used_amount |-> used,
         remaining_amount |-> rem,
         percent_used |-> percent,
         is_over_budget |-> total_cost > monthly_budget,
         projected_monthly |-> projected] :
            projected \in (IF total_cost * 30 = total_cost * Max(1, day)
                           THEN {used}
                           ELSE {c * Cent : c \in Nearest(total_cost * Max(1, day),
                                                           30 * Cent)}),
            rem \in Round2(Max(0, remaining)),
            percent \in (IF monthly_budget > 0
                         THEN Nearest(total_cost * 100 * 100, monthly_budget)
                         ELSE {0})}
              : used \in Round2(total_cost)}

\* get_budget_status with is_over_budget true from the budget on.
get_budget_status_atleast(day) ==
    LET total_cost == get_usage_for_period(MonthLen)
        remaining == monthly_budget - total_cost
    IN UNION {{[monthly_budget |-> monthly_budget,
         used_amount |-> used,
         remaining_amount |-> rem,
         percent_used |-> percent,
         is_over_budget |-> total_cost >= monthly_budget,
         projected_monthly |-> projected] :
            projected \in (IF total_cost * 30 = total_cost * Max(1, day)
                           THEN {used}
                           ELSE {c * Cent : c \in Nearest(total_cost * 30,
                                                           Max(1, day) * Cent)}),
            rem \in Round2(Max(0, remaining)),
            percent \in (IF monthly_budget > 0
                         THEN Nearest(total_cost * 100 * 100, monthly_budget)
                         ELSE {0})}
              : used \in Round2(total_cost)}

\* get_budget_status with the division guarded against a budget of 0 only.
get_budget_status_nonzero(day) ==
    LET total_cost == get_usage_for_period(MonthLen)
        remaining == monthly_budget - total_cost
    IN UNION {{[monthly_budget |-> monthly_budget,
         used_amount |-> used,
         remaining_amount |-> rem,
         percent_used |-> percent,
         is_over_budget |-> total_cost > monthly_budget,
         projected_monthly |-> projected] :
            projected \in (IF total_cost * 30 = total_cost * Max(1, day)
                           THEN {used}
                           ELSE {c * Cent : c \in Nearest(total_cost * 30,
                                                           Max(1, day) * Cent)}),
            rem \in Round2(Max(0, remaining)),
            percent \in (IF monthly_budget # 0
                         THEN Nearest(total_cost * 100 * 100, monthly_budget)
                         ELSE {0})}
              : used \in Round2(total_cost)}

\* get_budget_status: get_monthly_usage() is get_usage_for_period(30), a day
\* being a tick; the dictionaries it can return, amounts rounded to the cent
\* and percent_used, 0 unless monthly_budget > 0, in hundredths of a percent.
\* `day` is what _get_days_into_month returns, the day of the month of
\* utcnow(); projected_monthly is total_cost * (30 / max(1, day)) rounded to
\* the cent, the same float as used_amount when the factor is 1.
get_budget_status(day) ==
    LET total_cost == get_usage_for_period(MonthLen)
        remaining == monthly_budget - total_cost
    IN UNION {{[monthly_budget |-> monthly_budget,
         used_amount |-> used,
         remaining_amount |-> rem,
         percent_used |-> percent,
         is_over_budget |-> total_cost > monthly_budget,
         projected_monthly |-> projected] :
            projected \in (IF total_cost * 30 = total_cost * Max(1, day)
                           THEN {used}
                           ELSE {c * Cent : c \in Nearest(total_cost * 30,
                                                           Max(1, day) * Cent)}),
            rem \in Round2(Max(0, remaining)),
            percent \in (IF monthly_budget > 0
                         THEN Nearest(total_cost * 100 * 100, monthly_budget)
                         ELSE {0})}
              : used \in Round2(total_cost)}

\* _get_days_into_month: datetime.utcnow().day
DaysInMonth == 1..31

\* The budget status is asked for on a day of the month.
GetBudgetStatus(day) ==
    /\ budget_ret' \in get_budget_status(day)
    /\ UNCHANGED <<credit_usage, charge>>
    /\ MeterFrame



\* -------------------------------------------------------- ResearchScheduler

\* track_research_job(job_type): a CreditsTracker is made, log_research_job
\* logs OperationType.RESEARCH_JOB, the tracker is closed; an exception of
\* log_usage (db_ok false) passes through the try/finally to the caller.
track_research_job(job_type, db_ok) ==
    log_usage("research_job", job_type, NoCost, db_ok)

\* The frame of a step of a research job.
JobFrame ==
    UNCHANGED <<now, limiterVars, clientVars, brand_handles, sync_logs, metrics,
                runVars, parseVars, monthly_budget, limits_ret, raceVars>>

JobRaised == [returned |-> FALSE, raised |-> TRUE, success |-> FALSE]
JobReturned(success) == [returned |-> TRUE, raised |-> FALSE, success |-> success]

\* run_monthly_update up to the loop: track_research_job outside any try,
\* then the query of the brands, n of them.
MonthlyStart(n, db_ok) ==
    /\ jpc \in {"idle", "returned", "raised"}
    /\ credit_usage = <<>>
    /\ track_research_job("monthly_update_start", db_ok)
    /\ job' = "monthly_update"
    /\ job_todo' = n
    /\ job_results' = <<>>
    /\ job_commits' = 0
    /\ IF db_ok
       THEN /\ jpc' = "monthly_loop"
            /\ job_ret' = NoJobReturn
       ELSE /\ jpc' = "raised"
            /\ job_ret' = JobRaised
    /\ JobFrame

\* One pass of the loop: _research_and_update_brand commits and returns a
\* result, or raises and a failed result is appended.
MonthlyBrand(ok) ==
    /\ jpc = "monthly_loop"
    /\ job_todo > 0
    /\ job_todo' = job_todo - 1
    /\ job_results' = Append(job_results, ok)
    /\ job_commits' = job_commits + (IF ok THEN 1 ELSE 0)
    /\ UNCHANGED <<jpc, job, job_ret, credit_usage, charge, budget_ret>>
    /\ JobFrame

\* After the loop: track_research_job outside any try, then return results.
MonthlyComplete(db_ok) ==
    /\ jpc = "monthly_loop"
    /\ job_todo = 0
    /\ track_research_job("monthly_update_complete", db_ok)
    /\ IF db_ok
       THEN /\ jpc' = "returned"
            /\ job_ret' = JobReturned(TRUE)
       ELSE /\ jpc' = "raised"
            /\ job_ret' = JobRaised
    /\ UNCHANGED <<job, job_todo, job_results, job_commits>>
    /\ JobFrame

\* research_brand_from_website up to the try: track_research_job.
ImmediateStart(db_ok) ==
    /\ jpc \in {"idle", "returned", "raised"}
    /\ credit_usage = <<>>
    /\ track_research_job("immediate_start", db_ok)
    /\ job' = "immediate"
    /\ job_todo' = 1
    /\ job_results' = <<>>
    /\ job_commits' = 0
    /\ IF db_ok
       THEN /\ jpc' = "immediate_research"
            /\ job_ret' = NoJobReturn
       ELSE /\ jpc' = "raised"
            /\ job_ret' = JobRaised
    /\ JobFrame

\* Inside the try, up to the commit of the new brand: no page (a failed
\* result is returned), an exception, or the brand added and committed.
ImmediateResearch(o) ==
    /\ jpc = "immediate_research"
    /\ CASE o = "no_html" ->
              /\ jpc' = "returned"
              /\ job_ret' = JobReturned(FALSE)
              /\ UNCHANGED <<job_todo, job_commits>>
         [] o = "raises" ->
              /\ jpc' = "immediate_failed"
              /\ UNCHANGED <<job_ret, job_todo, job_commits>>
         [] o = "created" ->
              /\ jpc' = "immediate_complete"
              /\ job_commits' = job_commits + 1
              /\ job_todo' = 0
              /\ UNCHANGED job_ret
    /\ UNCHANGED <<job, job_results, credit_usage, charge, budget_ret>>
    /\ JobFrame

\* After the commit, still inside the try: track_research_job, whose
\* exception is caught by except Exception like any other.
ImmediateComplete(db_ok) ==
    /\ jpc = "immediate_complete"
    /\ track_research_job("immediate_complete", db_ok)
    /\ IF db_ok
       THEN /\ jpc' = "returned"
            /\ job_ret' = JobReturned(TRUE)
       ELSE /\ jpc' = "immediate_failed"
            /\ UNCHANGED job_ret
    /\ UNCHANGED <<job, job_todo, job_results, job_commits>>
    /\ JobFrame

\* The except clause: track_research_job, then the failed result.
ImmediateFailed(db_ok) ==
    /\ jpc = "immediate_failed"
    /\ track_research_job("immediate_failed", db_ok)
    /\ IF db_ok
       THEN /\ jpc' = "returned"
            /\ job_ret' = JobReturned(FALSE)
       ELSE /\ jpc' = "raised"
            /\ job_ret' = JobRaised
    /\ UNCHANGED <<job, job_todo, job_results, job_commits>>
    /\ JobFrame


\* ---------------------------------------------- two fetches at the same time

\* tiktok_rate_limiter is one module-level object and neither can_make_request
\* nor record_request takes a lock, so two get_tiktok_user calls running on two
\* threads interleave at every step of _make_request.  The first call is the
\* one of clientVars; `other` holds the locals of the second.

\* The responses _make_request does not retry after recording.
FinalOutcomes == Outcomes \ {"httpOther"}

\* The first call passes or fails the admission check.
FirstStart ==
    /\ rpc \in {"idle", "done", "failed"}
    /\ StartFetch("test")
    /\ overlapped' = (overlapped \/ (can_make_request.allowed /\ other.pc = "attempt"))
    /\ UNCHANGED <<now, other, restVars, storeVars, runVars>>

\* One iteration of the retry loop of the first call.
FirstAttempt ==
    /\ \E o \in FinalOutcomes, f \in Followers : Attempt(o, f)
    /\ UNCHANGED <<now, auxVars, storeVars, runVars>>

\* The second call passes or fails the admission check.
OtherStart ==
    /\ other.pc = "idle"
    /\ LET r == can_make_request IN
       /\ requests_this_hour' = r.hour
       /\ requests_this_month' = r.month
       /\ other' = IF r.allowed
                   THEN [NoOther EXCEPT !.pc = "attempt"]
                   ELSE [NoOther EXCEPT !.pc = "returned",
                                        !.ret = Failure(ErrLocalLimit(r.reason))]
       /\ overlapped' = (overlapped \/ (r.allowed /\ cpc = "attempt"))
    /\ UNCHANGED <<now, hourly_limit, monthly_limit, clientVars, storeVars,
                   runVars, restVars>>

\* One iteration of the retry loop of the second call.
OtherAttempt(o, f) ==
    /\ other.pc = "attempt"
    /\ IF o \in Responses
       THEN LET r == record_request(requests_this_hour, requests_this_month) IN
            /\ requests_this_hour' = r.hour
            /\ requests_this_month' = r.month
       ELSE UNCHANGED <<requests_this_hour, requests_this_month>>
    /\ LET n == other.recorded + (IF o \in Responses THEN 1 ELSE 0) IN
       other' =
         IF o = "ok"
         THEN [other EXCEPT !.pc = "returned", !.ret = Success(f), !.recorded = n]
         ELSE IF TerminalError(o) # NoError
         THEN [other EXCEPT !.pc = "returned", !.ret = Failure(TerminalError(o)),
                            !.recorded = n]
         ELSE IF other.attempt < Retries
         THEN [other EXCEPT !.attempt = @ + 1, !.recorded = n]
         ELSE [other EXCEPT !.pc = "returned", !.recorded = n,
                            !.ret = Failure(IF o = "timeout" THEN ErrTimeout
                                            ELSE ErrFailed)]
    /\ UNCHANGED <<now, hourly_limit, monthly_limit, clientVars, storeVars,
                   runVars, restVars, overlapped>>

\* The second call is over.
OtherReturn ==
    /\ other.pc = "returned"
    /\ other' = NoOther
    /\ UNCHANGED <<now, limiterVars, clientVars, storeVars, runVars, restVars,
                   overlapped>>

\* ---------------------------------------------------------- specification

InitAux ==
    /\ raw = NoRaw
    /\ parsed = NoParsed
    /\ budget_ret = NoBudgetStatus
    /\ charge = NoCharge
    /\ limits_ret = NoLimits
    /\ jpc = "idle"
    /\ job = "none"
    /\ job_todo = 0
    /\ job_results = <<>>
    /\ job_commits = 0
    /\ job_ret = NoJobReturn
    /\ other = NoOther
    /\ overlapped = FALSE

InitLimiter ==
    /\ now = 0
    /\ hourly_limit \in 1..MaxLimit
    /\ monthly_limit \in 1..MaxLimit
    /\ requests_this_hour = <<>>
    /\ requests_this_month = <<>>
    /\ cpc = "idle"
    /\ caller = "none"
    /\ attempt = 0
    /\ ret = NoReturn
    /\ checks = 0
    /\ outcomes = <<>>
    /\ recorded = 0
    /\ backoffs = <<>>
    /\ payload = NoInt

InitRun ==
    /\ metrics = <<>>
    /\ rpc = "idle"
    /\ brands = <<>>
    /\ idx = 1
    /\ result = NoResult
    /\ results = <<>>
    /\ tiktok_success_count = 0
    /\ instagram_success_count = 0
    /\ error_count = 0
    /\ sync_ret = NoSyncReturn
    /\ fetched = <<>>
    /\ persist_failed = {}
    /\ brand_ids = NoIds
    /\ query_brand_ids = NoIds
    /\ entry = "none"
    /\ metrics_before = 0
    /\ single_ret = NoSingleReturn
    /\ credit_usage = <<>>
    /\ http_status = 0
    /\ request = NoRequest
    /\ delays = 0

\* The process with the brands table of any content: sync runs.
Init ==
    /\ InitLimiter
    /\ InitRun
    /\ InitAux
    /\ monthly_budget = DEFAULT_MONTHLY_BUDGET
    /\ sync_logs = <<>>
    /\ brand_handles \in [BrandIds -> [tiktok : BOOLEAN, instagram : BOOLEAN]]

Next ==
    \/ Tick(MaxSyncTime)
    \/ MakeRequestAttempt
    \/ \E ids \in ExistingIds, db \in {"ok", "log_fails", "query_fails"} :
           RunSync(ids, db)
    \/ SyncTikTok
    \/ \E stored \in BOOLEAN : TikTokReturn(stored)
    \/ \E o \in InstagramOutcomes, f \in Followers, stored \in BOOLEAN :
           SyncInstagram(o, f, stored)
    \/ \E committed \in BOOLEAN : BrandDone(committed)
    \/ \E updated \in BOOLEAN : Finalize(updated)

Spec == Init /\ [][Next]_vars

\* The TikTok client and its limiter alone, driven through /sync/test.
InitClient ==
    /\ InitLimiter
    /\ InitRun
    /\ InitAux
    /\ monthly_budget = DEFAULT_MONTHLY_BUDGET
    /\ sync_logs = <<>>
    /\ brand_handles = [b \in BrandIds |-> [tiktok |-> TRUE, instagram |-> TRUE]]

NextClient ==
    \/ Tick(MaxTime)
    \/ TestSync
    \/ TestReturn
    \/ MakeRequestAttempt

SpecClient == InitClient /\ [][NextClient]_vars

\* Entity resolution: sync_all_brands called directly and through POST /sync
\* with either brand_ids or sync_all (which is not looked at when brand_ids is
\* given), the limiter at its widest and the clock at rest.
InitResolve ==
    /\ Init
    /\ hourly_limit = MaxLimit
    /\ monthly_limit = MaxLimit

NextResolve ==
    \/ \E ids \in RequestIds, db \in {"ok", "log_fails", "query_fails"} :
           RunSync(ids, db)
    \/ \E ids \in RequestIds, sync_all \in BOOLEAN,
          db \in {"ok", "log_fails", "query_fails"} :
           /\ Given(ids) # sync_all
           /\ trigger_social_sync(ids, sync_all, db)
    \/ MakeRequestAttempt
    \/ SyncTikTok
    \/ \E stored \in BOOLEAN : TikTokReturn(stored)
    \/ \E o \in InstagramOutcomes, f \in Followers, stored \in BOOLEAN :
           SyncInstagram(o, f, stored)
    \/ \E committed \in BOOLEAN : BrandDone(committed)
    \/ \E updated \in BOOLEAN : Finalize(updated)

SpecResolve == InitResolve /\ [][NextResolve]_vars

\* The sync logs earlier runs can have left: none, the log of a finished run
\* over no brand, the log of a run that raised.
PriorLogs ==
    {<<>>,
     <<update_sync_log(NewSyncLog(1), "success", 0, 0, 0, NoError)>>,
     <<NewSyncLog(1)>>}

\* Single-brand syncs (POST /sync/{brand_id}) after earlier runs.
InitSingle ==
    /\ InitLimiter
    /\ InitRun
    /\ InitAux
    /\ monthly_budget = DEFAULT_MONTHLY_BUDGET
    /\ brand_handles \in [BrandIds -> [tiktok : BOOLEAN, instagram : BOOLEAN]]
    /\ sync_logs \in PriorLogs

NextSingle ==
    \/ \E b \in 1..(NBrands + 1), db \in {"ok", "query_fails"} : SingleStart(b, db)
    \/ MakeRequestAttempt
    \/ SyncTikTok
    \/ \E stored \in BOOLEAN : TikTokReturn(stored)
    \/ \E o \in InstagramOutcomes, f \in Followers, stored \in BOOLEAN :
           SyncInstagram(o, f, stored)
    \/ \E committed \in BOOLEAN : SingleDone(committed)

SpecSingle == InitSingle /\ [][NextSingle]_vars

\* The social_metrics table under its writers and the clock.
NextStore ==
    \/ Tick(MaxTime)
    \/ \E b \in BrandIds, p \in Platforms, f \in Followers : WriteMetric(b, p, f)
    \/ \E b \in BrandIds, p \in Platforms, f \in Followers, date \in 0..MaxTime :
           ImportMetricRow(b, p, f, date)

SpecStore == InitClient /\ [][NextStore]_vars


\* The budgets of the environment (MONTHLY_BUDGET): negative, none, one
\* dollar, the default.
Budgets == {-10000, 0, 10000, DEFAULT_MONTHLY_BUDGET}

\* custom_cost of the callers: None, nothing, 40 and 60 cents.
CustomCosts == {NoCost, 0, 4000, 6000}

\* The names log_api_call is called with.
PlatformNames == {"tiktok", "instagram", "web_search", "twitter"}

\* The cost meter: charges, budget queries and the clock.
InitMeter ==
    /\ InitLimiter
    /\ InitRun
    /\ InitAux
    /\ sync_logs = <<>>
    /\ brand_handles = [b \in BrandIds |-> [tiktok |-> TRUE, instagram |-> TRUE]]
    /\ monthly_budget \in Budgets
    /\ hourly_limit = MaxLimit
    /\ monthly_limit = MaxLimit

NextMeter ==
    \/ Tick(MaxTime)
    \/ \E op \in OperationType, custom_cost \in CustomCosts, db_ok \in BOOLEAN :
           LogUsage(op, custom_cost, db_ok)
    \/ \E platform \in PlatformNames, db_ok \in BOOLEAN : LogApiCall(platform, db_ok)
    \/ \E minutes \in 0..MaxMinutes, db_ok \in BOOLEAN : LogComputeTime(minutes, db_ok)
    \/ GetBudgetStatus(1)

SpecMeter == InitMeter /\ [][NextMeter]_vars


\* The research jobs that charge the meter: the monthly update and the
\* immediate research of a website.
NextJobs ==
    \/ Tick(MaxSyncTime)
    \/ \E n \in 0..NBrands, db_ok \in BOOLEAN : MonthlyStart(n, db_ok)
    \/ \E ok \in BOOLEAN : MonthlyBrand(ok)
    \/ \E db_ok \in BOOLEAN : MonthlyComplete(db_ok)
    \/ \E db_ok \in BOOLEAN : ImmediateStart(db_ok)
    \/ \E o \in {"no_html", "raises", "created"} : ImmediateResearch(o)
    \/ \E db_ok \in BOOLEAN : ImmediateComplete(db_ok)
    \/ \E db_ok \in BOOLEAN : ImmediateFailed(db_ok)

SpecJobs == InitClient /\ [][NextJobs]_vars


\* The requests of POST /sync and their responses.
NextApi ==
    \/ \E ids \in RequestIds, sync_all \in BOOLEAN,
          db \in {"ok", "endpoint_query_fails", "log_fails", "query_fails"} :
           trigger_social_sync(ids, sync_all, db)
    \/ ApiReturn
    \/ MakeRequestAttempt
    \/ SyncTikTok
    \/ \E stored \in BOOLEAN : TikTokReturn(stored)
    \/ \E o \in InstagramOutcomes, f \in Followers, stored \in BOOLEAN :
           SyncInstagram(o, f, stored)
    \/ \E committed \in BOOLEAN : BrandDone(committed)
    \/ \E updated \in BOOLEAN : Finalize(updated)

\* The first brand on TikTok only and the others on Instagram only, the
\* limiter at its widest.
InitApi ==
    /\ InitLimiter
    /\ InitRun
    /\ InitAux
    /\ monthly_budget = DEFAULT_MONTHLY_BUDGET
    /\ sync_logs = <<>>
    /\ brand_handles = [b \in BrandIds |-> [tiktok |-> b = 1, instagram |-> b # 1]]
    /\ hourly_limit = MaxLimit
    /\ monthly_limit = MaxLimit

SpecApi == InitApi /\ [][NextApi]_vars


\* The count parser on every value of a payload field.
InitParse ==
    /\ InitLimiter
    /\ InitRun
    /\ sync_logs = <<>>
    /\ brand_handles = [b \in BrandIds |-> [tiktok |-> TRUE, instagram |-> TRUE]]
    /\ hourly_limit = MaxLimit
    /\ monthly_limit = MaxLimit
    /\ monthly_budget = DEFAULT_MONTHLY_BUDGET
    /\ raw \in RawValues
    /\ parsed = NoParsed
    /\ budget_ret = NoBudgetStatus
    /\ charge = NoCharge
    /\ limits_ret = NoLimits
    /\ jpc = "idle"
    /\ job = "none"
    /\ job_todo = 0
    /\ job_results = <<>>
    /\ job_commits = 0
    /\ job_ret = NoJobReturn
    /\ other = NoOther
    /\ overlapped = FALSE

NextParse == ParseNumber

SpecParse == InitParse /\ [][NextParse]_vars


\* The TikTok client with the status of its limiter asked for between fetches.
NextLimits ==
    \/ NextClient
    \/ GetRateLimits

SpecLimits == InitClient /\ [][NextLimits]_vars


\* Two get_tiktok_user calls on two threads against the one limiter, every
\* response final.
NextRace ==
    \/ Tick(MaxTime)
    \/ FirstStart
    \/ FirstAttempt
    \/ TestReturn
    \/ OtherStart
    \/ \E o \in FinalOutcomes, f \in Followers : OtherAttempt(o, f)
    \/ OtherReturn

SpecRace == InitClient /\ [][NextRace]_vars


\* Sync runs and /sync/test calls in one process, every brand on TikTok only.
InitShared ==
    /\ InitLimiter
    /\ InitRun
    /\ InitAux
    /\ monthly_budget = DEFAULT_MONTHLY_BUDGET
    /\ sync_logs = <<>>
    /\ brand_handles = [b \in BrandIds |-> [tiktok |-> TRUE, instagram |-> FALSE]]

NextShared ==
    \/ Tick(MaxSyncTime)
    \/ TestSync
    \/ TestReturn
    \/ MakeRequestAttempt
    \/ RunSync(NoIds, "ok")
    \/ SyncTikTok
    \/ \E stored \in BOOLEAN : TikTokReturn(stored)
    \/ \E o \in InstagramOutcomes, f \in Followers, stored \in BOOLEAN :
           SyncInstagram(o, f, stored)
    \/ \E committed \in BOOLEAN : BrandDone(committed)
    \/ \E updated \in BOOLEAN : Finalize(updated)

SpecShared == InitShared /\ [][NextShared]_vars


\* Sync runs of brands with both handles, killed at any point.
NextCrash ==
    \/ Next
    \/ Crash

SpecCrash == InitClient /\ [][NextCrash]_vars


\* The budget status asked for on any day of a month, the clock at rest and
\* the budget the default one.
InitProjection ==
    /\ InitMeter
    /\ monthly_budget = DEFAULT_MONTHLY_BUDGET

NextProjection ==
    \/ \E op \in OperationType, custom_cost \in CustomCosts, db_ok \in BOOLEAN :
           LogUsage(op, custom_cost, db_ok)
    \/ \E day \in DaysInMonth : GetBudgetStatus(day)

SpecProjection == InitProjection /\ [][NextProjection]_vars

\* ------------------------------------------------------------------ claims

\* Recorded calls inside the rolling hour and inside the rolling 30 days.
HourCount == Len(KeepAfter(requests_this_hour, now - HourLen))
MonthCount == Len(KeepAfter(requests_this_month, now - MonthLen))

LocalLimitErrors == {ErrLocalLimit(HourlyExceeded), ErrLocalLimit(MonthlyExceeded)}
Last(seq) == seq[Len(seq)]

\* C1: every HTTP attempt of a fetch, retries included, is preceded by an
\* admission check of its own, and the recorded calls inside the rolling hour
\* and the rolling 30 days never exceed hourly_limit and monthly_limit.
C1_AdmissionBeforeEveryAttempt ==
    /\ Len(outcomes) <= checks
    /\ HourCount <= hourly_limit
    /\ MonthCount <= monthly_limit

\* C2: while the calls recorded inside the hour window number hourly_limit or
\* more, can_make_request rejects with the hourly reason; and from a state
\* where it rejects so, it allows again only once the oldest timestamp of the
\* window is a full hour old.
C2_HourlyWindow ==
    [][/\ (HourCount >= hourly_limit
             => /\ ~can_make_request.allowed
                /\ can_make_request.reason = HourlyExceeded)
       /\ (HourCount >= hourly_limit /\ can_make_request'.allowed
             => now' - Min(Range(cleanup_old_requests.hour)) >= HourLen)]_vars

\* C2 witness: the limiter allows again although the hour list still holds
\* hourly_limit timestamps, all of them aged out and not yet pruned.
C2_Witness ==
    /\ Len(requests_this_hour) >= hourly_limit
    /\ HourCount = 0
    /\ can_make_request.allowed

\* C3: a fetch the admission check rejects returns the local rate-limit error
\* at once, with no HTTP attempt and no record_request: the calls inside both
\* windows are those from before the fetch.
C3_RejectedFetchSendsNothing ==
    [][(cpc = "idle" /\ cpc' # "idle" /\ ~can_make_request.allowed)
         => /\ cpc' = "returned"
            /\ ret' = Failure(ErrLocalLimit(can_make_request.reason))
            /\ outcomes' = <<>>
            /\ recorded' = 0
            /\ requests_this_hour' = cleanup_old_requests.hour
            /\ requests_this_month' = cleanup_old_requests.month
            /\ HourCount' = HourCount
            /\ MonthCount' = MonthCount]_vars

\* C3 witness: a fetch returned the local rate-limit error.
C3_Witness ==
    /\ cpc = "returned"
    /\ ret.error \in LocalLimitErrors
    /\ outcomes = <<>>
    /\ MonthCount > 0

\* C4: record_request is called once for every HTTP attempt sent, whatever the
\* attempt ended in: the fetch consumed as many quota units as it sent attempts.
C4_RecordPerAttempt == recorded = Len(outcomes)

\* C5: after one or two attempts that all failed with a timeout or a network
\* error the fetch goes on to the next attempt, and when that attempt returns a
\* valid 2xx payload the fetch returns success with the payload's metrics and
\* no error.
C5_SuccessAfterTransientFailures ==
    LET n == Len(outcomes)
        transient(k) == \A i \in 1..k : outcomes[i] \in NoResponse
    IN /\ (n \in 1..2 /\ transient(n) => cpc = "attempt")
       /\ (n \in 2..3 /\ transient(n - 1) /\ outcomes[n] = "ok"
             => /\ cpc = "returned"
                /\ ret = Success(payload)
                /\ payload \in Followers)

\* C5 witness: two timeouts, then a 2xx payload.
C5_Witness ==
    /\ outcomes = <<"timeout", "timeout", "ok">>
    /\ ret.success

\* C6: a fetch sends at most 3 attempts and has returned after the third, with
\* a success or an error; an attempt follows only a timeout or a request
\* failure (a network error or another HTTP error status).
C6_BoundedAttempts ==
    /\ Len(outcomes) <= 3
    /\ (Len(outcomes) = 3 => cpc = "returned")
    /\ (cpc = "returned" => ret.success = (ret.error = NoError))
    /\ \A i \in 1..(Len(outcomes) - 1) : outcomes[i] \in Retryable
    /\ (cpc = "attempt" => outcomes = <<>> \/ Last(outcomes) \in Retryable)

\* C6 witness: a fetch used all three attempts.
C6_Witness ==
    /\ cpc = "returned"
    /\ Len(outcomes) = 3
    /\ ~ret.success

\* The error of each status that ends a fetch at once.
StatusError(o) ==
    CASE o = "http429" -> Err429
      [] o = "http404" -> Err404
      [] o = "http401" -> Err401

\* C7 as stated: a fetch that received a 429, 404 or 401 response sent exactly
\* one attempt and slept no backoff, and returned that status's error; another
\* non-2xx status gives the request-failed error only after 3 attempts.
C7_ExactlyOneAttempt ==
    /\ \A i \in 1..Len(outcomes) :
          outcomes[i] \in {"http429", "http404", "http401"}
            => /\ Len(outcomes) = 1
               /\ backoffs = <<>>
               /\ cpc = "returned"
               /\ ret = Failure(StatusError(outcomes[i]))
    /\ (cpc = "returned" /\ outcomes # <<>> /\ Last(outcomes) = "httpOther"
          => /\ Len(outcomes) = 3
             /\ ret = Failure(ErrFailed))

\* C7 (amended): a 429, 404 or 401 response ends the fetch at once with its
\* own error: the attempt it answers is the last one and no backoff follows
\* it, so a fetch it answers at attempt k has sent k + 1 attempts and slept k
\* backoffs (one attempt and no sleep when it answers the first); a fetch
\* whose last response is another non-2xx status has used all 3 attempts and
\* returns the request-failed error, which no shorter fetch returns.
C7_TerminalStatuses ==
    /\ \A i \in 1..Len(outcomes) :
          outcomes[i] \in {"http429", "http404", "http401"}
            => /\ i = Len(outcomes)
               /\ cpc = "returned"
               /\ ret = Failure(StatusError(outcomes[i]))
               /\ Len(backoffs) = i - 1
               /\ (i = 1 => backoffs = <<>>)
    /\ (cpc = "returned" /\ outcomes # <<>> /\ Last(outcomes) = "httpOther"
          => /\ Len(outcomes) = 3
             /\ ret = Failure(ErrFailed))
    /\ (ret.error = ErrFailed => Len(outcomes) = 3)

\* C7 witness: a 404 that answers the retry after a timeout.
C7_Witness ==
    /\ cpc = "returned"
    /\ outcomes = <<"timeout", "http404">>
    /\ backoffs = <<1>>
    /\ ret.error = Err404

\* The fields of a SyncResult for one platform.
SuccessOf(r, p) == IF p = "tiktok" THEN r.tiktok_success ELSE r.instagram_success
ErrorOf(r, p) == IF p = "tiktok" THEN r.tiktok_error ELSE r.instagram_error
FollowersOf(r, p) == IF p = "tiktok" THEN r.tiktok_followers ELSE r.instagram_followers
HandleOf(b, p) == IF p = "tiktok" THEN brand_handles[b].tiktok
                  ELSE brand_handles[b].instagram

\* The brand of r has a handle, and every platform it has one for ended in an
\* error.
AllPlatformsFailed(r) ==
    /\ HasHandle(r.brand_id)
    /\ \A p \in Platforms :
          HandleOf(r.brand_id, p) => ErrorOf(r, p) # NoError /\ ~SuccessOf(r, p)

\* The brand at position j of the run was fetched on every platform it has a
\* handle for, and each success of it is a row of social_metrics.
FullyProcessed(j) ==
    /\ results[j].brand_id = brands[j]
    /\ \A p \in Platforms :
          /\ HandleOf(brands[j], p) => <<brands[j], p>> \in Range(fetched)
          /\ SuccessOf(results[j], p) =>
                \E k \in 1..Len(metrics) :
                   /\ metrics[k].brand_id = brands[j]
                   /\ metrics[k].platform = p
                   /\ metrics[k].followers = FollowersOf(results[j], p)

\* C8: once a brand has failed on every platform it has a handle for, the run
\* is not failed by it (only a store call that raises fails a run), every
\* later brand is fetched on each of its platforms with its successes stored,
\* and the finished run covers every resolved brand and is logged as partial.
C8_FailureIsolation ==
    \A i \in 1..Len(results) :
       AllPlatformsFailed(results[i])
         => /\ (rpc = "failed" => sync_ret.error \in StoreErrors)
            /\ \A j \in (i + 1)..Len(results) : FullyProcessed(j)
            /\ (rpc = "done"
                  => /\ Len(results) = Len(brands)
                     /\ Last(sync_logs).status = "partial")

\* C8 witness: the first brand failed on both platforms, the second succeeded
\* on both, and the run finished.
C8_Witness ==
    /\ rpc = "done"
    /\ Len(results) = 2
    /\ AllPlatformsFailed(results[1])
    /\ brand_handles[brands[1]].tiktok /\ brand_handles[brands[1]].instagram
    /\ results[2].tiktok_success /\ results[2].instagram_success
    /\ Last(sync_logs).status = "partial"

\* The SyncResult of brand b: the one in results, or the one being filled.
ResultOf(b) ==
    IF \E i \in 1..Len(results) : results[i].brand_id = b
    THEN results[CHOOSE i \in 1..Len(results) : results[i].brand_id = b]
    ELSE result

WithError ==
    {i \in 1..Len(results) :
        results[i].tiktok_error # NoError \/ results[i].instagram_error # NoError}

\* C10: when the loop is over and the log is updated, the status is success
\* if no brand has a platform error and partial otherwise, never error.
C10_FinalStatus ==
    rpc = "done"
      => /\ Len(results) = Len(brands)
         /\ Last(sync_logs).status = IF WithError = {} THEN "success" ELSE "partial"
         /\ sync_ret.success
         /\ sync_ret.errors = Cardinality(WithError)

\* C10 witness: two brands, both failed on both platforms, and the run is
\* logged as partial.
C10_Witness ==
    /\ rpc = "done"
    /\ Len(results) = 2
    /\ \A i \in 1..2 :
          /\ results[i].tiktok_error # NoError
          /\ results[i].instagram_error # NoError
    /\ Last(sync_logs).status = "partial"

Terminal == {"success", "partial", "error"}

\* The batch call has returned to its caller.
Returned == rpc \in {"done", "failed"} /\ entry \in {"direct", "api"}

\* C11: a returned sync_all_brands has left no sync log in status running: the
\* log of its run is success or partial when the loop completed, and error
\* when an exception escaped after the log was created.
C11_ReturnedRunNotRunning ==
    Returned
      => /\ \A i \in 1..Len(sync_logs) : sync_logs[i].status # "running"
         /\ (rpc = "done" => Last(sync_logs).status \in {"success", "partial"})
         /\ (rpc = "failed" /\ sync_ret.error # ErrCreateLog
               => Last(sync_logs).status = "error")

\* C12: a sync log is created in status running with no brand fetched yet; it
\* is running at every step of the loop; it is changed only once, by the
\* update after the last brand, which makes it terminal; a terminal log is
\* never changed again; a completed run has a terminal log.
C12_OneTerminalUpdate ==
    [][LET n == Len(sync_logs) IN
       /\ Len(sync_logs') >= n
       /\ (Len(sync_logs') > n
             => /\ sync_logs' = Append(sync_logs, NewSyncLog(n + 1))
                /\ sync_logs'[n + 1].status = "running"
                /\ fetched' = <<>>
                /\ metrics' = metrics)
       /\ \A i \in 1..n :
             sync_logs'[i] # sync_logs[i]
               => /\ i = n
                  /\ sync_logs[i].status = "running"
                  /\ sync_logs'[i].status \in Terminal
                  /\ rpc = "finalize" /\ rpc' = "done"
                  /\ Len(results) = Len(brands)
                  /\ fetched' = fetched
       /\ (rpc' \in {"tiktok", "tiktok_wait", "instagram", "commit", "finalize"}
             => Last(sync_logs').status = "running")
       /\ (rpc' = "done" => Last(sync_logs').status \in Terminal)]_vars

\* C12 witness: a run over two brands, both fetched, ended with its log
\* updated.
C12_Witness ==
    /\ rpc = "done"
    /\ Len(brands) = 2
    /\ Len(fetched) >= 2
    /\ Last(sync_logs).status \in Terminal
    /\ Last(sync_logs).records_processed = 2

\* C13: a sync log of terminal status has completed_at set, a running one has
\* it null.
C13_CompletedAtSet ==
    \A i \in 1..Len(sync_logs) :
       /\ (sync_logs[i].status \in Terminal => sync_logs[i].completed_at # NoInt)
       /\ (sync_logs[i].status = "running" => sync_logs[i].completed_at = NoInt)

\* The rows of social_metrics written since the sync started, all and those of
\* one brand and platform.
RunRows == (metrics_before + 1)..Len(metrics)
RowsOf(b, p) ==
    {k \in RunRows : metrics[k].brand_id = b /\ metrics[k].platform = p}

Synced(p) == {b \in Range(brands) : RowsOf(b, p) # {}}
Errored == {b \in Range(brands) : \E p \in Platforms : HandleOf(b, p) /\ RowsOf(b, p) = {}}

Supplied == IF entry = "api" THEN query_brand_ids ELSE brand_ids

\* The brands query of the running sync has been answered.
Resolved ==
    /\ entry \in {"direct", "api"}
    /\ sync_ret.error \notin {ErrCreateLog, ErrQuery}

\* C16: a sync whose caller supplied ids runs over, and fetches, only brands
\* whose id is among them, and none when no supplied id exists; a sync whose
\* caller supplied none runs over every brand with a handle.
C16_EntityResolution ==
    Resolved
      => /\ (Supplied \notin {NoIds, {}}
               => /\ Range(brands) = Supplied \cap BrandIds
                  /\ \A k \in 1..Len(fetched) : fetched[k][1] \in Supplied
                  /\ (Supplied \cap BrandIds = {} => fetched = <<>>))
         /\ (Supplied \in {NoIds, {}}
               => Range(brands) = {b \in BrandIds : HasHandle(b)})

\* The success flags set in a SyncResult.
Successes(r) ==
    (IF r.tiktok_success THEN 1 ELSE 0) + (IF r.instagram_success THEN 1 ELSE 0)

RECURSIVE SuccessesIn(_)
SuccessesIn(rs) ==
    IF rs = <<>> THEN 0 ELSE Successes(Head(rs)) + SuccessesIn(Tail(rs))

\* The successful fetches of the sync so far whose create_metric returned:
\* those of the brands done and of the brand in hand.
StoredSoFar ==
    SuccessesIn(results)
      + (IF rpc \in {"tiktok_wait", "instagram", "commit"} THEN Successes(result) ELSE 0)

C19_SingleSyncNoLog ==
    /\ [][entry' = "single" => sync_logs' = sync_logs]_vars
    /\ []((entry = "single" /\ rpc = "done")
            => /\ single_ret.success
               /\ result.brand_id = brands[1]
               /\ \A p \in Platforms :
                     /\ HandleOf(brands[1], p) => <<brands[1], p>> \in Range(fetched)
                     /\ SuccessOf(result, p) = (RowsOf(brands[1], p) # {})
                     /\ (ErrorOf(result, p) # NoError)
                           = (HandleOf(brands[1], p) /\ RowsOf(brands[1], p) = {}))

\* C19 witness: a single-brand sync wrote a TikTok row and returned, with the
\* log of an earlier run in the table.
C19_Witness ==
    /\ entry = "single"
    /\ rpc = "done"
    /\ single_ret.success
    /\ result.tiktok_success
    /\ RowsOf(brands[1], "tiktok") # {}
    /\ sync_logs \in PriorLogs \ {<<>>}

\* The entries of credit_usage for API calls to a platform.
ApiCallEntries(p) ==
    {k \in 1..Len(credit_usage) : credit_usage[k].operation_type = ApiCallType(p)}

\* C20: every platform fetch of the sync that produced a row of social_metrics
\* also logged an API call in credit_usage: the ledger holds one API-call
\* entry per successful platform fetch (stated for the TikTok fetches, whose
\* client is part of the source).
C20_FetchCharged ==
    \A p \in {"tiktok"} :
       Cardinality(ApiCallEntries(p))
         = Cardinality({k \in 1..Len(metrics) : metrics[k].platform = p})

\* C21: a call of log_usage that returns appends exactly one CreditUsage row,
\* of the operation charged, whose cost is custom_cost when one is given (0
\* included) and the configured cost of the operation otherwise; a call that
\* raises appends none.  No step changes or removes a row of the ledger, and
\* the budget query leaves the ledger as it is.
C21_ChargeAppendsOne ==
    [][/\ \/ credit_usage' = credit_usage
          \/ /\ ~charge'.raised
             /\ credit_usage' =
                    Append(credit_usage,
                           CreditUsage(charge'.op,
                                       IF charge'.custom_cost # NoCost
                                       THEN charge'.custom_cost
                                       ELSE costs[charge'.op],
                                       charge'.metadata,
                                       now))
       /\ (charge' # charge /\ ~charge'.raised) =>
              Len(credit_usage') = Len(credit_usage) + 1
       /\ (charge' # charge /\ charge'.raised) => credit_usage' = credit_usage
       /\ (budget_ret' # NoBudgetStatus /\ budget_ret' # budget_ret) =>
              credit_usage' = credit_usage]_vars

\* A research job charged with custom_cost = 0 after a charge at the
\* configured cost.
C21_Witness ==
    /\ Len(credit_usage) = 2
    /\ credit_usage[1].cost_usd = costs[credit_usage[1].operation_type]
    /\ credit_usage[2] = CreditUsage("research_job", 0, NoMetadata, now)
    /\ charge = [op |-> "research_job", metadata |-> NoMetadata, custom_cost |-> 0,
                 raised |-> FALSE]

\* The platforms log_api_call has an operation type for.
ConfiguredPlatforms == {"tiktok", "instagram", "web_search"}

\* C22: an API call charged for a platform name other than the configured
\* ones is recorded at zero cost.
C22_UnknownPlatformZeroCost ==
    \A k \in 1..Len(credit_usage) :
        (/\ credit_usage[k].metadata # NoMetadata
         /\ credit_usage[k].metadata \notin ConfiguredPlatforms) =>
            credit_usage[k].cost_usd = 0

\* C23: no failure of a charge aborts the job that made it: a research job
\* that has ended has returned, not raised, has processed every item, and
\* reports the brand it committed as a success.
C23_ChargeFailureDoesNotAbort ==
    jpc \in {"returned", "raised"} =>
        /\ job_ret.returned
        /\ ~job_ret.raised
        /\ (job = "monthly_update" => job_todo = 0)
        /\ (job = "immediate" /\ job_commits > 0) => job_ret.success

\* The sum of cost_usd over the rows created within the last 30 days.
Used == SumCost(SelectSeq(credit_usage, LAMBDA r : now - r.created_at <= MonthLen))

\* A budget status has just been returned.
StatusReturned == budget_ret' # NoBudgetStatus /\ budget_ret' # budget_ret

\* C24 as stated: the remaining amount of a budget status is
\* max(0, monthly_budget - used), used being the sum of the costs of the rows
\* of the last 30 days.
C24_RemainingExact ==
    [][StatusReturned =>
          budget_ret'.remaining_amount = Max(0, monthly_budget - Used)]_vars

\* C24: the remaining amount of a budget status is max(0, monthly_budget -
\* used) rounded to the cent and never negative, the used amount is used
\* rounded to the cent, and is_over_budget is true exactly when used >
\* monthly_budget, used being the sum of the costs of the rows created within
\* the last 30 days.
C24_BudgetStatus ==
    [][StatusReturned =>
          /\ budget_ret'.remaining_amount \in Round2(Max(0, monthly_budget - Used))
          /\ budget_ret'.remaining_amount >= 0
          /\ budget_ret'.used_amount \in Round2(Used)
          /\ budget_ret'.is_over_budget = (Used > monthly_budget)
          /\ (Used = monthly_budget) =>
                 (~budget_ret'.is_over_budget /\ budget_ret'.remaining_amount = 0)
          /\ budget_ret'.monthly_budget = monthly_budget]_vars

\* A budget of one dollar, rows of 60 cents each, one of them older than 30
\* days: 60 cents used and 40 left; before, both counted and it was over.
C24_Witness ==
    /\ monthly_budget = 10000
    /\ Len(credit_usage) = 2
    /\ SumCost(credit_usage) = 12000
    /\ Used = 6000
    /\ budget_ret.used_amount = 6000
    /\ budget_ret.remaining_amount = 4000
    /\ ~budget_ret.is_over_budget

\* C25 as stated: with a budget above 0, percent_used is used /
\* monthly_budget * 100.
C25_PercentExact ==
    [][StatusReturned =>
          /\ monthly_budget > 0 =>
                 budget_ret'.percent_used * monthly_budget = Used * 100 * 100
          /\ monthly_budget <= 0 => budget_ret'.percent_used = 0]_vars

\* C25: percent_used is used / monthly_budget * 100 rounded to two decimals
\* when monthly_budget > 0 and 0 when monthly_budget <= 0, whatever the
\* ledger holds; the status is returned for every budget.
C25_PercentUsed ==
    /\ [](get_budget_status(1) # {})
    /\ [][StatusReturned =>
             /\ monthly_budget > 0 =>
                    budget_ret'.percent_used \in
                        Nearest(Used * 100 * 100, monthly_budget)
             /\ monthly_budget <= 0 => budget_ret'.percent_used = 0]_vars

\* A status returned for a budget of 0 over a ledger with costs in it.
C25_Witness ==
    /\ monthly_budget = 0
    /\ Used > 0
    /\ budget_ret # NoBudgetStatus
    /\ budget_ret.percent_used = 0
    /\ budget_ret.is_over_budget

\* A response of POST /sync has just been made.
Responded == http_status' # 0 /\ http_status' # http_status

\* The request had neither brand ids nor the sync_all flag.
Empty(req) == ~Given(req.brand_ids) /\ ~req.sync_all

\* The step started no sync run and made no fetch.
NothingRun == UNCHANGED <<sync_logs, outcomes, fetched, metrics, rpc>>

\* C26 as stated: a request with neither ids nor the flag gets a 400 and
\* starts nothing; a run that went through its brands gets a 200 with the
\* error count, whatever failed per platform; a 500 is the response only to a
\* run that sync_all_brands reported as failed.
C26_HttpMapping ==
    [][Responded =>
          /\ Empty(request') => (http_status' = 400 /\ NothingRun)
          /\ http_status' = 400 => Empty(request')
          /\ (ResponsePending /\ rpc = "done") =>
                 (http_status' = 200 /\ sync_ret.errors = error_count)
          /\ http_status' = 500 => (ResponsePending /\ rpc = "failed")]_vars

\* C26: a request with neither ids nor the flag gets a 400 and starts
\* nothing; a run that went through its brands gets a 200 with the error
\* count, whatever failed per platform; a 500 is the response to a run that
\* sync_all_brands reported as failed, or to a request whose brands query in
\* the endpoint raised before any run was started.
C26_HttpMappingOrQuery ==
    [][Responded =>
          /\ http_status' \in {200, 400, 500}
          /\ Empty(request') => (http_status' = 400 /\ NothingRun)
          /\ http_status' = 400 => Empty(request')
          /\ (ResponsePending /\ rpc = "done") =>
                 (http_status' = 200 /\ sync_ret.errors = error_count)
          /\ http_status' = 200 => (ResponsePending /\ rpc = "done")
          /\ http_status' = 500 =>
                 \/ ResponsePending /\ rpc = "failed" /\ ~sync_ret.success
                 \/ ~ResponsePending /\ ~Empty(request') /\ NothingRun]_vars

\* A 200 for a run in which every brand failed on its platform.
C26_Witness ==
    /\ http_status = 200
    /\ entry = "api"
    /\ rpc = "done"
    /\ Len(brands) = NBrands
    /\ error_count = NBrands
    /\ sync_ret.errors = NBrands

\* C27: the count parser returns an integer for every value and never
\* raises, and a value that is not a finite number gives 0.
C27_ParserTotal ==
    parsed # NoParsed =>
        /\ parsed.raised = "None"
        /\ (raw.type \in {"null", "inf", "nan", "other"} => parsed.value = 0)

\* A fetch has just asked can_make_request.
Admitting == cpc = "idle" /\ cpc' # "idle"

\* Every element of s is one of t.
Within(s, t) == Len(s) <= Len(t) /\ Range(s) \subseteq Range(t)

\* C28: can_make_request adds no timestamp to either list and leaves the
\* counts of both windows as they were, and asked again at the same instant
\* it answers the same; the counts grow only where record_request is called,
\* and then by exactly one in both windows.
C28_AdmitConsumesNothing ==
    [][/\ Admitting =>
              /\ Within(requests_this_hour', requests_this_hour)
              /\ Within(requests_this_month', requests_this_month)
              /\ HourCount' = HourCount
              /\ MonthCount' = MonthCount
              /\ can_make_request' = can_make_request
       /\ (HourCount' > HourCount \/ MonthCount' > MonthCount) =>
              recorded' = recorded + 1
       /\ recorded' = recorded + 1 =>
              /\ HourCount' = HourCount + 1
              /\ MonthCount' = MonthCount + 1
              /\ Len(requests_this_hour') = Len(requests_this_hour) + 1
              /\ Len(requests_this_month') = Len(requests_this_month) + 1]_vars

\* A fetch turned down by can_make_request after an earlier fetch was
\* admitted once and recorded twice.
C28_Witness ==
    /\ cpc = "returned"
    /\ checks = 1
    /\ recorded = 0
    /\ ret.error \in LocalLimitErrors
    /\ HourCount = 2
    /\ MonthCount = 2

\* C29: the status of the limiter reports, for each window, used and
\* remaining = limit - used with 0 <= remaining <= limit.
C29_RemainingWithinLimit ==
    limits_ret # NoLimits =>
        /\ limits_ret.hourly_remaining = limits_ret.hourly_limit - limits_ret.hourly_used
        /\ limits_ret.monthly_remaining = limits_ret.monthly_limit - limits_ret.monthly_used
        /\ limits_ret.hourly_remaining \in 0..limits_ret.hourly_limit
        /\ limits_ret.monthly_remaining \in 0..limits_ret.monthly_limit

\* The platform attempts of the run that have ended.
AttemptsEnded == Len(fetched) - (IF rpc = "tiktok_wait" THEN 1 ELSE 0)

\* C30: the delay between requests has been slept after every platform
\* attempt of the run that has ended, whatever its outcome, so that no attempt
\* starts without the delay after the one before.
C30_DelayAfterEveryAttempt == delays = AttemptsEnded

IsSuffix(h, m) ==
    /\ Len(h) <= Len(m)
    /\ \A i \in 1..Len(h) : h[i] = m[Len(m) - Len(h) + i]

\* C33: after an admission check or a status query the hourly list holds only
\* timestamps of the last hour and the monthly list only timestamps of the
\* last 30 days; at all times the hourly list is the tail of the monthly list,
\* so the calls used in the hour are at most the calls used in the month, in
\* the lists and in the status returned.
C33_PruningInvariant ==
    /\ [](/\ IsSuffix(requests_this_hour, requests_this_month)
          /\ HourCount <= MonthCount
          /\ limits_ret.hourly_used <= limits_ret.monthly_used)
    /\ [][cpc = "idle" /\ now' = now
            => /\ \A i \in DOMAIN requests_this_hour' :
                     requests_this_hour'[i] > now - HourLen
               /\ \A i \in DOMAIN requests_this_month' :
                     requests_this_month'[i] > now - MonthLen]_vars

\* C33 witness: a status query has pruned from the hourly list a timestamp the
\* monthly list still holds.
C33_Witness ==
    /\ limits_ret # NoLimits
    /\ limits_ret.hourly_used < limits_ret.monthly_used
    /\ Len(requests_this_hour) = limits_ret.hourly_used
    /\ Len(requests_this_month) = limits_ret.monthly_used

\* C34: with the calls of the 30-day window at monthly_limit or more and those
\* of the hour window below hourly_limit, can_make_request rejects with the
\* fixed monthly message, and a fetch started then returns it; with both
\* limits reached it is the hourly rejection that is reported, with a wait
\* between 0 and the length of the hour.
C34_MonthlyCheck ==
    /\ [](/\ (MonthCount >= monthly_limit /\ HourCount < hourly_limit
               => /\ ~can_make_request.allowed
                  /\ can_make_request.reason = MonthlyExceeded)
          /\ (MonthCount >= monthly_limit /\ HourCount >= hourly_limit
               => /\ ~can_make_request.allowed
                  /\ can_make_request.reason = HourlyExceeded
                  /\ can_make_request.wait \in 0..HourLen))
    /\ [][cpc = "idle" /\ cpc' # "idle"
            /\ MonthCount >= monthly_limit /\ HourCount < hourly_limit
            => /\ cpc' = "returned"
               /\ ret' = Failure(ErrLocalLimit(MonthlyExceeded))
               /\ outcomes' = <<>>]_vars

\* C34 witness: a fetch returned the monthly message while the hour window
\* had room.
C34_Witness ==
    /\ cpc = "returned"
    /\ ret.error = ErrLocalLimit(MonthlyExceeded)
    /\ HourCount < hourly_limit
    /\ MonthCount >= monthly_limit

\* Where x stands in a sequence without repeats.
PosIn(seq, x) == CHOOSE i \in DOMAIN seq : seq[i] = x

SoFar ==
    results \o (IF rpc \in {"tiktok_wait", "instagram", "commit"}
                THEN <<result>> ELSE <<>>)
SuccessOn(r, p) ==
    IF p = "tiktok" THEN r.tiktok_success ELSE r.instagram_success
FollowersOn(r, p) ==
    IF p = "tiktok" THEN r.tiktok_followers ELSE r.instagram_followers

\* C36: when the process is killed during a run, every fetch the run had
\* completed with success has its row in social_metrics, and the sync log of
\* the run is left with status running and no completed_at; nothing stored
\* changes afterwards.
C36_CrashSafety ==
    /\ [](rpc = "crashed"
            => /\ Last(sync_logs).status = "running"
               /\ Last(sync_logs).completed_at = NoInt)
    /\ [][/\ (rpc # "crashed" /\ rpc' = "crashed"
                => \A i \in DOMAIN SoFar, p \in Platforms :
                     SuccessOn(SoFar[i], p)
                       => \E k \in (metrics_before + 1)..Len(metrics') :
                            metrics'[k] = SocialMetric(SoFar[i].brand_id, p,
                                                       FollowersOn(SoFar[i], p),
                                                       metrics'[k].recorded_at))
          /\ (rpc = "crashed" => UNCHANGED storeVars)]_vars

\* C36 witness: the process was killed after a row of the run was written.
C36_Witness ==
    /\ rpc = "crashed"
    /\ Len(metrics) > metrics_before
    /\ Last(sync_logs).status = "running"

ErrorOn(r, p) == IF p = "tiktok" THEN r.tiktok_error ELSE r.instagram_error

\* C38: in every result of a run, per platform: success comes with no error
\* and with the followers fetched, an error comes without success, and a
\* platform the brand has no handle for has neither success nor error nor
\* followers; and a brand counted in a success count and in error_count by the
\* same step has its error on the other platform.
C38_SuccessErrorExclusive ==
    /\ [](\A i \in DOMAIN SoFar, p \in Platforms :
            LET r == SoFar[i] IN
            /\ (SuccessOn(r, p)
                  => ErrorOn(r, p) = NoError /\ FollowersOn(r, p) \in Followers)
            /\ (ErrorOn(r, p) # NoError
                  => ~SuccessOn(r, p) /\ FollowersOn(r, p) = NoInt)
            /\ (~HandleOf(r.brand_id, p)
                  => /\ ~SuccessOn(r, p)
                     /\ ErrorOn(r, p) = NoError
                     /\ FollowersOn(r, p) = NoInt))
    /\ [][/\ (tiktok_success_count' > tiktok_success_count
                  /\ error_count' > error_count
                => result.tiktok_error = NoError /\ result.instagram_error # NoError)
          /\ (instagram_success_count' > instagram_success_count
                  /\ error_count' > error_count
                => result.instagram_error = NoError /\ result.tiktok_error # NoError)]_vars

\* C38 witness: a brand done with success on one platform and an error on the
\* other, counted once in the success count and once in error_count.
C38_Witness ==
    /\ results # <<>>
    /\ Last(results).tiktok_success
    /\ Last(results).instagram_error # NoError
    /\ tiktok_success_count >= 1
    /\ error_count >= 1

\* C37: the wait after the failed retryable attempt of zero-based index a is
\* 2^a seconds when a is not the final attempt; there is no wait after the
\* final attempt, after a success or after an error that is not retried: a
\* fetch still in its loop has waited once per attempt made, a fetch that
\* returned has waited after every attempt but its last.
C37_BackoffSchedule ==
    /\ \A k \in DOMAIN backoffs :
          /\ backoffs[k] = 2 ^ (k - 1)
          /\ k - 1 < Retries
          /\ outcomes[k] \in Retryable
    /\ (cpc = "attempt" => Len(backoffs) = Len(outcomes))
    /\ (cpc = "returned" /\ outcomes # <<>> => Len(backoffs) = Len(outcomes) - 1)
    /\ (cpc = "returned" /\ outcomes = <<>> => backoffs = <<>>)

\* C37 witness: every attempt of a fetch failed in a way that is retried: the
\* fetch waited 1 and then 2 seconds, and not after the third attempt.
C37_Witness ==
    /\ cpc = "returned"
    /\ Len(outcomes) = RetriesPlusOne
    /\ Last(outcomes) \in Retryable
    /\ backoffs = <<1, 2>>

\* C39 as stated: whatever the ledger holds and whatever the day of the month,
\* the projected_monthly returned is at least the used_amount returned.
C39_ProjectedAtLeastUsed ==
    budget_ret # NoBudgetStatus
      => budget_ret.projected_monthly >= budget_ret.used_amount

\* C39: projected_monthly is used * 30 / max(1, day) rounded to the cent; it
\* is at least used_amount on the days 1 to 30 of a month, and on the 31st it
\* is at most used_amount, and below it once the thirty-first part of the
\* amount used reaches two cents.
C39_ProjectedMonthly ==
    LET total_cost == get_usage_for_period(MonthLen) IN
    \A day \in DaysInMonth : \A s \in get_budget_status(day) :
        /\ 2 * (s.projected_monthly * day - total_cost * 30) <= Cent * day
        /\ 2 * (total_cost * 30 - s.projected_monthly * day) <= Cent * day
        /\ (day <= 30 => s.projected_monthly >= s.used_amount)
        /\ (day = 31 => s.projected_monthly <= s.used_amount)
        /\ (day = 31 /\ total_cost >= 2 * 31 * Cent
              => s.projected_monthly < s.used_amount)

\* C39 witness: on the 31st, with charges in the ledger, the status returned
\* projects less than the amount used.
C39_Witness ==
    /\ budget_ret # NoBudgetStatus
    /\ budget_ret \in get_budget_status(31)
    /\ budget_ret.used_amount > 0
    /\ budget_ret.projected_monthly < budget_ret.used_amount

====
